---- MODULE Spec2Model ----
(***************************************************************************)
(* fastjson: the document tree (json_value / json_object) with its         *)
(* doubly-linked child lists, the mutators and the lookups.                *)
(*                                                                         *)
(* Pointers are node identifiers; NULL is the null pointer.  The heap is a *)
(* record of the fields of every node; every method is an operator from a  *)
(* heap to a result record [h, ret, old] that threads the heap through the *)
(* method's assignments in program order, so aliasing between the          *)
(* statements is kept.                                                     *)
(***************************************************************************)
EXTENDS Integers, Sequences, FiniteSets, TLC

\* ------------------------------------------------------------------ bounds
\* Indexes passed to at / array_insert / array_remove / array_set range over
\* -MaxIndex..MaxIndex; on the lists of fewer than MaxIndex children the
\* extreme values run past both ends, as INT_MIN and INT_MAX do.
MaxIndex == 3
\* Number of mutator calls in one run.
MaxCalls == 2

\* ------------------------------------------------------------------ nodes
NULL == "NULL"
\* An indeterminate pointer that names no node of the document.
WILD == "WILD"
Scalars == {"v1", "v2", "v3"}
Arrays == {"A"}
Objects == {"O"}
Containers == Arrays \cup Objects
\* The function-local static of json_value::null().
NullVal == "null()"
Values == Scalars \cup Containers \cup {NullVal}
Ptr == Values \cup {NULL}

\* value_type of every node: fixed by the constructor, no mutator writes type_.
TypeOf(v) ==
  IF v \in Arrays THEN "value_array"
  ELSE IF v \in Objects THEN "value_object"
  ELSE IF v = NullVal THEN "value_null"
  ELSE "value_bool"

is_array(v) == TypeOf(v) = "value_array"
is_object(v) == TypeOf(v) = "value_object"
is_null(v) == TypeOf(v) = "value_null"

\* Names are sequences of code units; 0 is the terminator Ch('\0').
emptystr == << >>
Names == {<<97>>, <<65>>, <<97, 98>>}
Queries == Names \cup {<<98>>}
Indexes == (0 - MaxIndex)..MaxIndex

VARIABLES owner, prev, next, name, child, lastchild, numchildren, call, ncalls

vars == <<owner, prev, next, name, child, lastchild, numchildren, call, ncalls>>

\* The parser's side of a document: the caller's memory as the last parse
\* left it, the tree root() shows, and the record of the last parse call.
VARIABLES mem, root_, pcall

pvars == <<mem, root_, pcall>>

\* A memory_pool on its own: its template arguments static_size and
\* dynamic_size, the members pool_, next_ and end_, the heap blocks obtained
\* so far (base, size, the next_pool_ of the header, how often freed), the
\* regions alloc has returned, and the last call.
VARIABLES static_size, dynamic_size, pool, blocks, regions, mcall

mvars == <<static_size, dynamic_size, pool, blocks, regions, mcall>>

NoPool == [pool_ |-> 0, next_ |-> 0, end_ |-> 0]

NoPoolCall ==
  [op |-> "init", size |-> 0, ret |-> 0, asked |-> FALSE, ok |-> TRUE,
   before |-> NoPool, nblocks |-> 0, frees |-> << >>]

\* The last print call on the document (st, flags, out, hang; built says
\* that the document was built with the factory functions) and what a
\* second document made of the printed text (what, root).
VARIABLES prn

NoPrint ==
  [st |-> "none", built |-> FALSE, flags |-> 0, out |-> << >>,
   hang |-> FALSE, what |-> "", root |-> [kind |-> "value_object",
   name |-> << >>, text |-> << >>, kids |-> << >>]]

\* The pool's variables in the specifications that are not about it.
PoolIdle ==
  /\ static_size = 0
  /\ dynamic_size = 0
  /\ pool = NoPool
  /\ blocks = << >>
  /\ regions = << >>
  /\ mcall = NoPoolCall

\* The heap as one value.  fault records a dereference of a null pointer
\* inside the method being executed.
Heap ==
  [owner |-> owner, prev |-> prev, next |-> next, name |-> name,
   child |-> child, lastchild |-> lastchild, numchildren |-> numchildren,
   fault |-> FALSE]

\* json_value's constructor: owner_, prev_, next_ null; allocate_value and
\* allocate_object pass emptystr for the name, null() leaves name_ == nameend_.
InitHeap ==
  [owner |-> [v \in Values |-> NULL],
   prev |-> [v \in Values |-> NULL],
   next |-> [v \in Values |-> NULL],
   name |-> [v \in Values |-> emptystr],
   child |-> [c \in Containers |-> NULL],
   lastchild |-> [c \in Containers |-> NULL],
   numchildren |-> [c \in Containers |-> 0],
   fault |-> FALSE]

\* ---------------------------------------------------------------- strings
\* internal::length: code units before the terminator.
RECURSIVE length(_)
length(s) ==
  IF s = << >> \/ Head(s) = 0 THEN 0 ELSE 1 + length(Tail(s))

\* internal::compare(first, second, secondend): first is NUL-terminated (read
\* up to its terminator), second is counted.
RECURSIVE compare(_, _)
compare(first, second) ==
  LET f == IF first = << >> THEN 0 ELSE Head(first)
  IN IF f # 0 /\ second # << >>
     THEN IF f < Head(second) THEN 0 - 1
          ELSE IF Head(second) < f THEN 1
          ELSE compare(Tail(first), Tail(second))
     ELSE IF f = 0 /\ second = << >> THEN 0
     ELSE IF f # 0 THEN 1 ELSE 0 - 1

\* ----------------------------------------------------------- json_object
\* size_t arithmetic on numchildren_: the counter is kept as its signed
\* residue, so -1 stands for SIZE_MAX after a decrement of zero.
Inc(n) == n + 1
Dec(n) == n - 1

\* What a call hands back: the heap it leaves, a bool result (ok), a pointer
\* result (ret), object_set's *old, and whether the call never returns.
RetBool(h, b, o) == [h |-> h, ok |-> b, ret |-> NULL, old |-> o, hang |-> FALSE]
RetPtr(h, p) == [h |-> h, ok |-> FALSE, ret |-> p, old |-> NULL, hang |-> FALSE]
RetVoid(h) == [h |-> h, ok |-> FALSE, ret |-> NULL, old |-> NULL, hang |-> FALSE]
Hangs(h) == [h |-> h, ok |-> FALSE, ret |-> NULL, old |-> NULL, hang |-> TRUE]

\* json_object::add_child
add_child(h, self, ch) ==
  LET h1 == [h EXCEPT !.owner[ch] = self, !.prev[ch] = NULL, !.next[ch] = NULL]
      h2 == IF h1.child[self] = NULL
            THEN [h1 EXCEPT !.child[self] = ch, !.lastchild[self] = ch]
            ELSE IF h1.lastchild[self] = NULL
            THEN [h1 EXCEPT !.fault = TRUE]
            ELSE LET a == [h1 EXCEPT !.prev[ch] = h1.lastchild[self]]
                     b == [a EXCEPT !.next[a.lastchild[self]] = ch]
                 IN [b EXCEPT !.lastchild[self] = ch]
  IN [h2 EXCEPT !.numchildren[self] = Inc(@)]

\* json_object::array_add
array_add(h, self, val) ==
  IF ~is_array(self) \/ val = NULL \/ h.owner[val] # NULL
  THEN RetBool(h, FALSE, NULL)
  ELSE RetBool(add_child(h, self, val), TRUE, NULL)

\* A location a json_value** can point at: <<field, node>>.
Load(h, pp) ==
  IF pp[1] = "child" THEN h.child[pp[2]]
  ELSE IF pp[1] = "lastchild" THEN h.lastchild[pp[2]]
  ELSE IF pp[1] = "prev" THEN h.prev[pp[2]]
  ELSE h.next[pp[2]]

Store(h, pp, x) ==
  IF pp[1] = "child" THEN [h EXCEPT !.child[pp[2]] = x]
  ELSE IF pp[1] = "lastchild" THEN [h EXCEPT !.lastchild[pp[2]] = x]
  ELSE IF pp[1] = "prev" THEN [h EXCEPT !.prev[pp[2]] = x]
  ELSE [h EXCEPT !.next[pp[2]] = x]

\* array_insert: while (++index < 0 && *pp) pp = &(*pp)->prev_;
RECURSIVE insert_walk_back(_, _, _)
insert_walk_back(h, pp, index) ==
  IF index + 1 < 0 /\ Load(h, pp) # NULL
  THEN insert_walk_back(h, <<"prev", Load(h, pp)>>, index + 1)
  ELSE pp

\* array_insert: while (index-- > 0 && *pp) pp = &(*pp)->next_;
RECURSIVE insert_walk_fwd(_, _, _)
insert_walk_fwd(h, pp, index) ==
  IF index > 0 /\ Load(h, pp) # NULL
  THEN insert_walk_fwd(h, <<"next", Load(h, pp)>>, index - 1)
  ELSE pp

\* json_object::array_insert (release build: the assert is compiled out)
array_insert(h, self, val, index) ==
  IF ~is_array(self) \/ val = NULL \/ h.owner[val] # NULL
  THEN RetBool(h, FALSE, NULL)
  ELSE IF index < 0
  THEN LET pp == insert_walk_back(h, <<"lastchild", self>>, index)
           h1 == [h EXCEPT !.prev[val] = Load(h, pp)]
           h2 == IF h1.prev[val] # NULL
                 THEN [h1 EXCEPT !.next[h1.prev[val]] = val]
                 ELSE [h1 EXCEPT !.child[self] = val]
           h3 == [h2 EXCEPT !.next[val] =
                    IF Load(h2, pp) # NULL THEN h2.next[Load(h2, pp)] ELSE NULL]
           h4 == Store(h3, pp, val)
       IN RetBool([h4 EXCEPT !.numchildren[self] = Inc(@)], TRUE, NULL)
  ELSE LET pp == insert_walk_fwd(h, <<"child", self>>, index)
           h1 == [h EXCEPT !.next[val] = Load(h, pp)]
           h2 == IF h1.next[val] # NULL
                 THEN [h1 EXCEPT !.prev[h1.next[val]] = val]
                 ELSE [h1 EXCEPT !.lastchild[self] = val]
           h3 == [h2 EXCEPT !.prev[val] =
                    IF Load(h2, pp) # NULL THEN h2.prev[Load(h2, pp)] ELSE NULL]
           h4 == Store(h3, pp, val)
       IN RetBool([h4 EXCEPT !.numchildren[self] = Inc(@)], TRUE, NULL)

\* array_remove: while (++index < 0 && p && p->prev_) p = p->prev_;
RECURSIVE remove_walk_back(_, _, _)
remove_walk_back(h, p, index) ==
  IF index + 1 < 0 /\ p # NULL /\ h.prev[p] # NULL
  THEN remove_walk_back(h, h.prev[p], index + 1)
  ELSE p

\* array_remove's forward walk without the p->next_ test: it runs off the end
\* of the list instead of stopping at the last child.
RECURSIVE remove_walk_fwd_noclamp(_, _, _)
remove_walk_fwd_noclamp(h, p, index) ==
  IF index > 0 /\ p # NULL
  THEN remove_walk_fwd_noclamp(h, h.next[p], index - 1)
  ELSE p

\* array_remove: while (index-- > 0 && p && p->next_) p = p->next_;
RECURSIVE remove_walk_fwd(_, _, _)
remove_walk_fwd(h, p, index) ==
  IF index > 0 /\ p # NULL /\ h.next[p] # NULL
  THEN remove_walk_fwd(h, h.next[p], index - 1)
  ELSE p

\* The unlinking shared by array_remove and object_remove.
unlink(h, self, p) ==
  LET h1 == IF h.prev[p] # NULL
            THEN [h EXCEPT !.next[h.prev[p]] = h.next[p]]
            ELSE [h EXCEPT !.child[self] = h.next[p]]
      h2 == IF h1.next[p] # NULL
            THEN [h1 EXCEPT !.prev[h1.next[p]] = h1.prev[p]]
            ELSE [h1 EXCEPT !.lastchild[self] = h1.prev[p]]
  IN [h2 EXCEPT !.owner[p] = NULL, !.numchildren[self] = Dec(@)]

\* json_object::array_remove
array_remove(h, self, index) ==
  IF ~is_array(self) THEN RetPtr(h, NULL)
  ELSE LET p == IF index < 0
                THEN remove_walk_back(h, h.lastchild[self], index)
                ELSE remove_walk_fwd(h, h.child[self], index)
       IN IF p # NULL
          THEN RetPtr(unlink(h, self, p), p)
          ELSE RetPtr(h, NULL)

\* array_set: while (index > 0 && p) { --index; p = p->next_; }
\* The loop's exit state is the pair (index, p).
RECURSIVE set_walk_fwd(_, _, _)
set_walk_fwd(h, p, index) ==
  IF index > 0 /\ p # NULL
  THEN set_walk_fwd(h, h.next[p], index - 1)
  ELSE [index |-> index, p |-> p]

\* array_set: while (++index < 0 && p) p = p->prev_;
\* index is incremented by every evaluation of the condition.
RECURSIVE set_walk_back(_, _, _)
set_walk_back(h, p, index) ==
  IF index + 1 < 0 /\ p # NULL
  THEN set_walk_back(h, h.prev[p], index + 1)
  ELSE [index |-> index + 1, p |-> p]

\* json_object::array_set.  val is dereferenced without a null check.
array_set(h, self, index, val) ==
  IF ~is_array(self) THEN RetBool(h, FALSE, NULL)
  ELSE
  LET w == IF index >= 0
           THEN set_walk_fwd(h, h.child[self], index)
           ELSE set_walk_back(h, h.lastchild[self], index)
      p == w.p
  IN IF w.index # 0 THEN RetBool(h, FALSE, NULL)
     ELSE IF val = NULL
     THEN RetBool([h EXCEPT !.fault = TRUE], FALSE, NULL)
     ELSE IF p = NULL
     THEN \* Append to end
          LET h1 == IF h.lastchild[self] # NULL
                    THEN LET a == [h EXCEPT !.next[h.lastchild[self]] = val]
                             b == [a EXCEPT !.prev[val] = a.lastchild[self]]
                             c == [b EXCEPT !.next[val] = NULL]
                         IN [c EXCEPT !.lastchild[self] = val]
                    ELSE LET a == [h EXCEPT !.child[self] = val,
                                            !.lastchild[self] = val]
                         IN [a EXCEPT !.prev[val] = NULL, !.next[val] = NULL]
          IN RetBool(h1, TRUE, NULL)
     ELSE \* Replace existing
          LET h1 == IF h.prev[p] # NULL
                    THEN LET a == [h EXCEPT !.next[h.prev[p]] = val]
                         IN [a EXCEPT !.prev[val] = a.prev[p]]
                    ELSE LET a == [h EXCEPT !.child[self] = val]
                         IN [a EXCEPT !.prev[val] = NULL]
              h2 == IF h1.next[p] # NULL
                    THEN LET a == [h1 EXCEPT !.prev[h1.next[p]] = val]
                         IN [a EXCEPT !.next[val] = a.next[p]]
                    ELSE LET a == [h1 EXCEPT !.lastchild[self] = val]
                         IN [a EXCEPT !.next[val] = NULL]
              h3 == [h2 EXCEPT !.next[p] = NULL]
          IN RetBool([h3 EXCEPT !.prev[p] = NULL], TRUE, NULL)

\* object_set's search: while (*pp) { if (compare(...) == 0) {...; break;}
\* pp = &((*pp)->next_); }.  The search writes nothing, so a location seen
\* twice is a loop that never ends.  Result: the location it stops at, whether
\* it stopped on a match, whether it runs forever.
RECURSIVE set_search(_, _, _, _)
set_search(h, nm, pp, seen) ==
  IF pp \in seen THEN [pp |-> pp, found |-> FALSE, hang |-> TRUE]
  ELSE IF Load(h, pp) = NULL THEN [pp |-> pp, found |-> FALSE, hang |-> FALSE]
  ELSE IF compare(nm, h.name[Load(h, pp)]) = 0
  THEN [pp |-> pp, found |-> TRUE, hang |-> FALSE]
  ELSE set_search(h, nm, <<"next", Load(h, pp)>>, seen \cup {pp})

\* json_object::object_set
object_set(h, self, nm, val) ==
  IF ~is_object(self) THEN RetBool(h, FALSE, NULL)
  ELSE IF length(nm) = 0 THEN RetBool(h, FALSE, NULL)
  ELSE IF val = NULL \/ h.owner[val] # NULL
  THEN RetBool(h, FALSE, NULL)
  ELSE
  LET h1 == [h EXCEPT !.name[val] = SubSeq(nm, 1, length(nm))]
      s == set_search(h1, nm, <<"child", self>>, {})
  IN IF s.hang THEN Hangs(h1)
     ELSE IF s.found
     THEN LET c == Load(h1, s.pp)
              h2 == [h1 EXCEPT !.prev[val] = h1.prev[c]]
              h3 == [h2 EXCEPT !.next[val] = h2.next[c]]
              h4 == IF h3.next[val] # NULL
                    THEN [h3 EXCEPT !.prev[h3.next[val]] = val]
                    ELSE h3
          IN RetBool(Store(h4, s.pp, val), TRUE, c)
     ELSE RetBool(add_child(h1, self, val), TRUE, NULL)

\* object_remove's search: while (p) { if (compare(...) == 0) ...; p = p->next_; }
RECURSIVE remove_search(_, _, _, _)
remove_search(h, nm, p, seen) ==
  IF p \in seen THEN "hang"
  ELSE IF p = NULL THEN NULL
  ELSE IF compare(nm, h.name[p]) = 0 THEN p
  ELSE remove_search(h, nm, h.next[p], seen \cup {p})

\* json_object::object_remove
object_remove(h, self, nm) ==
  IF ~is_object(self) THEN RetPtr(h, NULL)
  ELSE IF length(nm) = 0 THEN RetPtr(h, NULL)
  ELSE LET p == remove_search(h, nm, h.child[self], {})
       IN IF p = "hang" THEN Hangs(h)
          ELSE IF p = NULL THEN RetPtr(h, NULL)
          ELSE RetPtr(unlink(h, self, p), p)

\* remove_all's loop: p is assigned child_ once, before the loop, and is not
\* advanced inside it.
RECURSIVE remove_all_loop(_, _, _)
remove_all_loop(h, self, p) ==
  IF h.child[self] = NULL THEN h
  ELSE LET nxt == h.next[p]
           h1 == [h EXCEPT !.owner[h.child[self]] = NULL]
           h2 == [h1 EXCEPT !.next[h1.child[self]] = NULL]
           h3 == [h2 EXCEPT !.prev[h2.child[self]] = NULL]
       IN remove_all_loop([h3 EXCEPT !.child[self] = nxt], self, p)

\* json_object::remove_all
remove_all(h, self) ==
  LET h1 == remove_all_loop(h, self, h.child[self])
      h2 == [h1 EXCEPT !.numchildren[self] = 0]
  IN RetVoid([h2 EXCEPT !.child[self] = NULL, !.lastchild[self] = NULL])

\* at(name)'s loop: for (p = child_; p; p = p->next_) if (compare == 0) return *p;
RECURSIVE at_name_loop(_, _, _, _)
at_name_loop(h, nm, p, seen) ==
  IF p \in seen THEN "hang"
  ELSE IF p = NULL THEN NullVal
  ELSE IF compare(nm, h.name[p]) = 0 THEN p
  ELSE at_name_loop(h, nm, h.next[p], seen \cup {p})

\* json_object::at(const Ch* name)
at_name(h, self, nm) ==
  LET p == at_name_loop(h, nm, h.child[self], {})
  IN IF p = "hang" THEN Hangs(h) ELSE RetPtr(h, p)

\* at(int): while (++index < 0 && p) p = p->prev_;
RECURSIVE at_walk_back(_, _, _)
at_walk_back(h, p, index) ==
  IF index + 1 < 0 /\ p # NULL
  THEN at_walk_back(h, h.prev[p], index + 1)
  ELSE p

\* at(int): while (index-- > 0 && p) p = p->next_;
\* Reading through a pointer that names no node yields no node.
RECURSIVE at_walk_fwd(_, _, _)
at_walk_fwd(h, p, index) ==
  IF index > 0 /\ p # NULL
  THEN IF p = WILD THEN WILD ELSE at_walk_fwd(h, h.next[p], index - 1)
  ELSE p

\* json_object::at(int index).  In the index >= 0 branch p is read without
\* ever having been written: uninit is the value the local happens to hold.
at_index(h, self, index, uninit) ==
  LET p == IF index < 0
           THEN at_walk_back(h, h.lastchild[self], index)
           ELSE at_walk_fwd(h, uninit, index)
  IN RetPtr(h, IF p # NULL THEN p ELSE NullVal)

\* ------------------------------------------------------------ the program
\* parse_object / parse_array: every child comes fresh from parse_value, gets
\* its name (members of objects only) and is appended with add_child; a nested
\* container is complete before it is appended to its parent.  A parsed
\* document is the list of those appends, <<container, child, name>>.
RECURSIVE parse(_, _)
parse(h, adds) ==
  IF adds = << >> THEN h
  ELSE LET a == Head(adds)
       IN parse(add_child([h EXCEPT !.name[a[2]] = a[3]], a[1], a[2]), Tail(adds))

\* The documents a run starts from: nothing parsed (every value comes from a
\* factory function and is detached), arrays of two and three elements,
\* objects with a repeated name, with names that differ in case, in length
\* and by an embedded code unit zero, with an empty name and a nested array.
ParsedDocs ==
  { << >>,
    << <<"A", "v1", emptystr>>, <<"A", "v2", emptystr>> >>,
    << <<"A", "v1", emptystr>>, <<"A", "v2", emptystr>>, <<"A", "v3", emptystr>> >>,
    << <<"O", "v1", <<97>> >>, <<"O", "v2", <<97>> >> >>,
    << <<"O", "v1", <<97, 0>> >>, <<"O", "v2", <<65>> >>, <<"O", "v3", <<97>> >> >>,
    << <<"A", "v2", emptystr>>, <<"O", "v1", emptystr>>, <<"O", "A", <<97, 98>> >> >> }

NoCall ==
  [op |-> "none", self |-> NULL, val |-> NULL, index |-> 0, name |-> emptystr,
   ok |-> FALSE, ret |-> NULL, old |-> NULL, status |-> "returned"]

SetHeap(h) ==
  /\ owner' = h.owner
  /\ prev' = h.prev
  /\ next' = h.next
  /\ name' = h.name
  /\ child' = h.child
  /\ lastchild' = h.lastchild
  /\ numchildren' = h.numchildren

\* json_document's constructor: root_ is allocate_object(), an empty object.
EmptyRoot == [kind |-> "value_object", name |-> << >>, text |-> << >>, kids |-> << >>]

\* The record of the last call of parse: its arguments, the memory before
\* it, the error it passed to the handler and the root it found.
NoParse ==
  [n |-> 0, T |-> << >>, enc |-> "utf8", flags |-> {}, tail |-> << >>,
   heap |-> 0, wo |-> 1, num_bytes |-> 0, before |-> << >>, what |-> "",
   reg |-> "none", off |-> 0, rootset |-> FALSE, prev |-> EmptyRoot,
   ahead |-> FALSE, outside |-> FALSE]

Init ==
  \E doc \in ParsedDocs :
    LET h == parse(InitHeap, doc)
    IN /\ owner = h.owner
       /\ prev = h.prev
       /\ next = h.next
       /\ name = h.name
       /\ child = h.child
       /\ lastchild = h.lastchild
       /\ numchildren = h.numchildren
       /\ call = NoCall
       /\ ncalls = 0
       /\ mem = << >>
       /\ root_ = EmptyRoot
       /\ pcall = NoParse
       /\ PoolIdle
       /\ prn = NoPrint

Lookups == {"at_name", "at_index"}

\* A call that hung or faulted is the last thing the program does.  The
\* lookups are const methods: a run ends with at most one of them, after the
\* mutator calls.
Running == call.status = "returned" /\ call.op \notin Lookups

Status(r) == IF r.hang THEN "hang" ELSE IF r.h.fault THEN "crash" ELSE "returned"

\* One call of the public interface: the heap it leaves and its record.
Apply(op, self, val, index, nm, r) ==
  /\ Running
  /\ op \notin Lookups => ncalls < MaxCalls
  /\ SetHeap(r.h)
  /\ call' = [op |-> op, self |-> self, val |-> val, index |-> index,
              name |-> nm, ok |-> r.ok, ret |-> r.ret, old |-> r.old,
              status |-> Status(r)]
  /\ ncalls' = IF op \in Lookups THEN ncalls ELSE ncalls + 1
  /\ UNCHANGED <<pvars, mvars, prn>>

\* The values a caller holds: the scalars from the factory functions, the
\* shared json_value::null(), and a null pointer.
Args == Scalars \cup {NullVal, NULL}

ArrayAdd ==
  \E self \in Arrays, val \in Args :
    Apply("array_add", self, val, 0, emptystr, array_add(Heap, self, val))

ArrayInsert ==
  \E self \in Arrays, val \in Args, index \in Indexes :
    Apply("array_insert", self, val, index, emptystr,
          array_insert(Heap, self, val, index))

ArrayRemove ==
  \E self \in Arrays, index \in Indexes :
    Apply("array_remove", self, NULL, index, emptystr,
          array_remove(Heap, self, index))

ArraySet ==
  \E self \in Arrays, val \in Args, index \in Indexes :
    Apply("array_set", self, val, index, emptystr,
          array_set(Heap, self, index, val))

ObjectSet ==
  \E self \in Objects, val \in Args, nm \in Names \cup {emptystr} :
    Apply("object_set", self, val, 0, nm, object_set(Heap, self, nm, val))

ObjectRemove ==
  \E self \in Objects, nm \in Names \cup {emptystr} :
    Apply("object_remove", self, NULL, 0, nm, object_remove(Heap, self, nm))

RemoveAll ==
  \E self \in Containers :
    Apply("remove_all", self, NULL, 0, emptystr, remove_all(Heap, self))

AtName ==
  \E self \in Objects, nm \in Queries :
    Apply("at_name", self, NULL, 0, nm, at_name(Heap, self, nm))

AtIndex ==
  \E self \in Containers, index \in Indexes :
    \E uninit \in (IF index < 0 THEN {NULL} ELSE Ptr \cup {WILD}) :
      Apply("at_index", self, NULL, index, emptystr,
            at_index(Heap, self, index, uninit))

Mutate ==
  \/ ArrayAdd
  \/ ArrayInsert
  \/ ArrayRemove
  \/ ArraySet
  \/ ObjectSet
  \/ ObjectRemove
  \/ RemoveAll

Next ==
  \/ ArrayAdd
  \/ ArrayInsert
  \/ ArrayRemove
  \/ ArraySet
  \/ ObjectSet
  \/ ObjectRemove
  \/ RemoveAll
  \/ AtName
  \/ AtIndex

Spec == Init /\ [][Next]_vars

MutSpec == Init /\ [][Mutate]_vars

\* ======================================================================
\* json_document::parse.  The caller's memory is a sequence of bytes: the
\* buffer of num_bytes bytes handed to parse, followed by whatever the caller
\* has behind it.  Pointers into it are byte offsets from the buffer's start.
\* The host is little-endian; an input in the other byte order is parsed
\* with internal::parse_do_swap.  A document is over code units of wo bytes
\* (sizeof(Ch)), its input over code units of wi bytes (sizeof(ChIn)).
\* ======================================================================

\* The code units the parser compares against (ChIn('{') and so on).
Chr ==
  [tab |-> 9, lf |-> 10, cr |-> 13, sp |-> 32, quote |-> 34, hash |-> 35,
   star |-> 42, plus |-> 43, comma |-> 44, minus |-> 45, dot |-> 46,
   slash |-> 47, d0 |-> 48, d1 |-> 49, d9 |-> 57, colon |-> 58, E |-> 69,
   lbracket |-> 91, bslash |-> 92, rbracket |-> 93, a |-> 97, b |-> 98,
   c |-> 99, d |-> 100, e |-> 101, f |-> 102, l |-> 108, n |-> 110,
   r |-> 114, s |-> 115, t |-> 116, u |-> 117, lbrace |-> 123,
   rbrace |-> 125]

\* Parse flags; a call's Flags is the set of the flags or'd together.
parse_no_string_terminators == "parse_no_string_terminators"
parse_no_inline_translation == "parse_no_inline_translation"
parse_force_string_terminators == "parse_force_string_terminators"
parse_trailing_commas == "parse_trailing_commas"
parse_comments == "parse_comments"
parse_default == {}
parse_non_destructive == {parse_no_string_terminators, parse_no_inline_translation}
parse_non_destructive_nul == {parse_force_string_terminators}

\* enum encoding, and lookup_tables::encoding_sizes.
Encodings == {"utf8", "utf16", "utf16_swap", "utf32", "utf32_swap"}
encoding_sizes(enc) ==
  IF enc = "utf8" THEN 1 ELSE IF enc \in {"utf16", "utf16_swap"} THEN 2 ELSE 4
parse_do_swap(enc) == enc \in {"utf16_swap", "utf32_swap"}

\* string_tables: the texts of the literals, each with its terminator.
nullstr == <<110, 117, 108, 108, 0>>
truestr == <<116, 114, 117, 101, 0>>
falsestr == <<102, 97, 108, 115, 101, 0>>

\* lookup_tables::utf8_lengths, indexed by the leading byte >> 2.
utf8_lengths(i) ==
  IF i < 32 THEN 1
  ELSE IF i < 48 THEN 0
  ELSE IF i < 56 THEN 2
  ELSE IF i < 60 THEN 3
  ELSE IF i < 62 THEN 4
  ELSE 0

\* a | b on non-negative integers.
RECURSIVE BitOr(_, _)
BitOr(a, b) ==
  IF a = 0 THEN b
  ELSE IF b = 0 THEN a
  ELSE (IF a % 2 = 1 \/ b % 2 = 1 THEN 1 ELSE 0) + 2 * BitOr(a \div 2, b \div 2)

\* ---- the caller's memory
InMem(m, off, w) == off >= 0 /\ off + w <= Len(m)

\* A code unit of w bytes at byte offset off, as the host loads it.
load(m, off, w) ==
  IF w = 1 THEN m[off + 1]
  ELSE IF w = 2 THEN m[off + 1] + 256 * m[off + 2]
  ELSE m[off + 1] + 256 * m[off + 2] + 65536 * m[off + 3] + 16777216 * m[off + 4]

\* read_helper<true>::read applied to the loaded unit: its bytes reversed.
load_swapped(m, off, w) ==
  IF w = 2 THEN m[off + 2] + 256 * m[off + 1]
  ELSE m[off + 4] + 256 * m[off + 3] + 65536 * m[off + 2] + 16777216 * m[off + 1]

\* A load from an address behind the caller's memory has no value.
Unmapped == 0 - 1

\* internal::read<Flags>(*p) for the input pointer p = off.
read(c, m, off) ==
  IF ~InMem(m, off, c.wi) THEN Unmapped
  ELSE IF c.swap THEN load_swapped(m, off, c.wi)
  ELSE load(m, off, c.wi)

\* *p = u for a pointer p to a code unit of w bytes.
store(m, off, w, u) ==
  [i \in 1..Len(m) |->
     IF i = off + 1 THEN u % 256
     ELSE IF i = off + 2 /\ w >= 2 THEN (u \div 256) % 256
     ELSE IF i = off + 3 /\ w = 4 THEN (u \div 65536) % 256
     ELSE IF i = off + 4 /\ w = 4 THEN (u \div 16777216) % 256
     ELSE m[i]]

whitespace_pred(ch) == ch \in {9, 10, 13, 32}
digit_pred(ch) == ch \in 48..57

\* ---- transcoding.  A converter sees the code units from its input pointer
\* on (u, already through read<Flags>) and the number of them before end
\* (avail); it answers with the units it consumed (adv), the units it wrote
\* (out) and, when it called the error handler, the message and the unit the
\* error location points to, counted from the input pointer it was given.
ConvOk(adv, out) == [adv |-> adv, out |-> out, what |-> "", at |-> 0]
ConvErr(what, at) == [adv |-> 0, out |-> << >>, what |-> what, at |-> at]

\* to_utf32<Flags, Ch, 1>::convert; out carries the code point.
to_utf32_1(u, avail) ==
  LET n == utf8_lengths(u[1] \div 4)
  IN IF n = 0 THEN ConvErr("Invalid UTF-8 sequence", 0)
     ELSE IF n = 1 THEN ConvOk(1, <<u[1]>>)
     ELSE IF avail < n THEN ConvErr("Invalid UTF-8 sequence", 0)
     ELSE IF n = 2 THEN ConvOk(2, <<BitOr((u[1] % 32) * 64, u[2] % 64)>>)
     ELSE IF n = 3
       THEN ConvOk(3, <<BitOr(BitOr((u[1] % 16) * 4096, (u[2] % 64) * 64),
                              u[3] % 64)>>)
     ELSE ConvOk(4, <<BitOr(BitOr(BitOr((u[1] % 8) * 262144,
                                        (u[2] % 64) * 4096),
                                  (u[3] % 64) * 64), u[4] % 64)>>)

\* to_utf32<Flags, Ch, 2>::convert.
to_utf32_2(u, avail) ==
  LET c == u[1]
  IN IF c < \hd800 \/ c > \hdfff THEN ConvOk(1, <<c>>)
     ELSE IF c < \hdc00
       THEN IF avail < 2 THEN ConvErr("Invalid UTF-16 surrogate pair", 0)
            ELSE IF u[2] < \hdc00 \/ u[2] > \hdfff
              THEN ConvErr("Invalid UTF-16 surrogate pair", 0)
            ELSE ConvOk(2, <<BitOr((c % \h400) * \h400, c % \h4000) + \h10000>>)
     ELSE ConvErr("Invalid UTF-16 character", 0)

\* to_utf32<Flags, Ch, 4>::convert.
to_utf32_4(u, avail) == ConvOk(1, <<u[1]>>)

to_utf32(w, u, avail) ==
  IF w = 1 THEN to_utf32_1(u, avail)
  ELSE IF w = 2 THEN to_utf32_2(u, avail)
  ELSE to_utf32_4(u, avail)

\* from_utf32<Ch, 1>::convert: the units written for code point c.
from_utf32_1(c) ==
  IF c <= \h7f THEN <<c>>
  ELSE IF c <= \h7ff
    THEN <<(\hc0 + ((c \div 64) % 64)) % 256, \h80 + (c % 64)>>
  ELSE IF c < \h10000
    THEN <<\he0 + ((c \div 4096) % 16), \h80 + ((c \div 64) % 64),
           \h80 + (c % 64)>>
  ELSE <<\hf0 + ((c \div 262144) % 8), \h80 + ((c \div 4096) % 64),
         \h80 + ((c \div 64) % 64), \h80 + (c % 64)>>

\* from_utf32<Ch, 2>::convert.
from_utf32_2(c) ==
  IF c < \h10000 THEN <<c>>
  ELSE LET d == c - \h10000
       IN <<BitOr(\hd800, d \div \h400) % \h10000, BitOr(\hdc00, d % \h400)>>

\* from_utf32<Ch, 4>::convert.
from_utf32_4(c) == <<c>>

from_utf32(w, c) ==
  IF w = 1 THEN from_utf32_1(c)
  ELSE IF w = 2 THEN from_utf32_2(c)
  ELSE from_utf32_4(c)

\* unicode_converter<Flags, ChIn, ChOut, 1, 1>::convert.
convert_1_1(u, avail) ==
  LET size == utf8_lengths(u[1] \div 4)
  IN IF size = 0 \/ size > avail THEN ConvErr("Invalid UTF-8 sequence", 0)
     ELSE ConvOk(size, SubSeq(u, 1, size))

\* unicode_converter<Flags, ChIn, ChOut, 2, 2>::convert: p[1] is read without
\* looking at end, and the first unit is stored before the second is looked at.
convert_2_2(u, avail) ==
  LET c == u[1]
  IN IF c >= \hd800 /\ c < \hdc00
       THEN IF u[2] < \hdc00 \/ u[2] > \hdfff
              THEN [ConvErr("Invalid UTF-16 surrogate pair", 1) EXCEPT !.out = <<c>>]
            ELSE ConvOk(2, <<c, u[2]>>)
     ELSE ConvOk(1, <<c>>)

\* unicode_converter<Flags, ChIn, ChOut, 4, 4>::convert.
convert_4_4(u, avail) == ConvOk(1, <<u[1]>>)

\* unicode_converter<Flags, ChIn, ChOut>::convert, the unspecialised one.
convert_any(win, wout, u, avail) ==
  LET encoded(r) ==
        IF r.what # "" THEN r ELSE ConvOk(r.adv, from_utf32(wout, r.out[1]))
  IN encoded(to_utf32(win, u, avail))

\* internal::convert<Flags>(in, end, out, outend, handler).
convert(win, wout, u, avail) ==
  IF win = 1 /\ wout = 1 THEN convert_1_1(u, avail)
  ELSE IF win = 2 /\ wout = 2 THEN convert_2_2(u, avail)
  ELSE IF win = 4 /\ wout = 4 THEN convert_4_4(u, avail)
  ELSE convert_any(win, wout, u, avail)

\* internal::measure<Flags, ChOut>(in, end, handler): every measure member
\* makes the steps of its convert and counts the units instead of storing
\* them.
measure(win, wout, u, avail) == convert(win, wout, u, avail)

\* The encoding of a text (a sequence of code points) the caller hands in:
\* code units of the encoding, each laid down in the encoding's byte order.
RECURSIVE Units(_, _)
Units(w, T) ==
  IF T = << >> THEN << >> ELSE from_utf32(w, Head(T)) \o Units(w, Tail(T))

UnitBytes(w, swapped, u) ==
  LET le == [i \in 1..w |-> (u \div (IF i = 1 THEN 1 ELSE IF i = 2 THEN 256
                                     ELSE IF i = 3 THEN 65536 ELSE 16777216))
                            % 256]
  IN IF swapped THEN [i \in 1..w |-> le[w + 1 - i]] ELSE le

RECURSIVE BytesOf(_, _, _)
BytesOf(w, swapped, us) ==
  IF us = << >> THEN << >>
  ELSE UnitBytes(w, swapped, Head(us)) \o BytesOf(w, swapped, Tail(us))

Encode(enc, T) == BytesOf(encoding_sizes(enc), parse_do_swap(enc),
                          Units(encoding_sizes(enc), T))

\* ---- the state of one parse call.  c is what the call fixes (wi, swap, wo,
\* flags, end); s is what it changes: the caller's memory, the strings
\* carved from the pool, the input pointer data, the error handed to the
\* error handler (what, and where = a pointer into region reg at offset off),
\* the number of pool allocations that still succeed, and the locals of the
\* function at work (out, view, node, cu, tr, outlen, b).
NoView == [reg |-> "emptystr", id |-> 0, b |-> 0, e |-> 0]
NoNode == [kind |-> "none", name |-> NoView, text |-> NoView, kids |-> << >>]
NoPtr == [reg |-> "emptystr", id |-> 0, off |-> 0]

\* A pool unit that was never written.
Uninit == 0 - 2

PState(m, heap) ==
  [mem |-> m, arena |-> << >>, data |-> 0, what |-> "", reg |-> "none",
   off |-> 0, heap |-> heap, out |-> NoPtr, view |-> NoView, node |-> NoNode,
   root |-> NoNode, rootset |-> FALSE, cu |-> 0, tr |-> FALSE, outlen |-> 0,
   b |-> FALSE, ahead |-> FALSE, outside |-> FALSE]

Fails(s) == s.what # ""

\* FASTJSON_PARSE_ERROR(what, where): the handler does not return.
Error(s, what, reg, off) == [s EXCEPT !.what = what, !.reg = reg, !.off = off]
PARSE_ERROR(s, what, off) == Error(s, what, "buffer", off)

\* A load from behind the caller's memory, and a loop that cannot end.
Fault(s) == Error(s, "fault", "none", 0)
Hang(s) == Error(s, "hang", "none", 0)

adv(c, s, n) == [s EXCEPT !.data = @ + n * c.wi]

\* The code units at the input pointer off and behind it.
units(c, m, off) == [i \in 1..4 |-> read(c, m, off + (i - 1) * c.wi)]

\* json_document::alloc for n code units of the document.
alloc(s, n) ==
  IF s.heap = 0 THEN Error(s, "Memory allocation failed", "null", 0)
  ELSE [s EXCEPT !.heap = @ - 1, !.arena = Append(@, [i \in 1..n |-> Uninit])]

\* allocate_value / allocate_object: alloc for one node.
allocate_value(s) ==
  IF s.heap = 0 THEN Error(s, "Memory allocation failed", "null", 0)
  ELSE [s EXCEPT !.heap = @ - 1]

\* A pointer to a code unit of the document: into the caller's buffer (off in
\* bytes), into a pool string (off in units), into a literal of
\* string_tables or at internal::emptystr.
ptr_step(c, reg) == IF reg = "buffer" THEN c.wo ELSE 1

rd_out(c, s, reg, id, off) ==
  IF reg = "buffer" THEN load(s.mem, off, c.wo)
  ELSE IF reg = "arena" THEN s.arena[id][off + 1]
  ELSE IF reg = "nullstr" THEN nullstr[off + 1]
  ELSE IF reg = "truestr" THEN truestr[off + 1]
  ELSE IF reg = "falsestr" THEN falsestr[off + 1]
  ELSE 0

wr_out(c, s, reg, id, off, u) ==
  IF reg = "buffer" THEN [s EXCEPT !.mem = store(@, off, c.wo, u)]
  ELSE IF reg = "arena" /\ off < Len(s.arena[id])
    THEN [s EXCEPT !.arena[id][off + 1] = u]
  ELSE s

\* *out++ = u for every unit of us.
RECURSIVE emit(_, _, _)
emit(c, s, us) ==
  IF us = << >> THEN s
  ELSE emit(c, [wr_out(c, s, s.out.reg, s.out.id, s.out.off, Head(us))
                  EXCEPT !.out.off = @ + ptr_step(c, s.out.reg)],
            Tail(us))

\* What a step of a translation loop has left: ahead records that out, when
\* it points into the caller's buffer, has passed data, so that the step has
\* stored over code units of the input that were not read yet.
written(c, t) ==
  IF t.out.reg = "buffer" /\ t.out.off > t.data
    THEN [t EXCEPT !.ahead = TRUE] ELSE t

\* internal::convert<Flags>(data, lim, out, out_end, handler) on the input.
convert_input(c, s, lim) ==
  LET stored(r) ==
        IF r.what # ""
          THEN PARSE_ERROR(emit(c, s, r.out), r.what, s.data + r.at * c.wi)
          ELSE adv(c, emit(c, s, r.out), r.adv)
  IN stored(convert(c.wi, c.wo, units(c, s.mem, s.data),
                    (lim - s.data) \div c.wi))

\* internal::convert<0>(p, p + 2, out, out_end, handler) on the local array
\* of a \u escape; an error points into that array.
convert_escape(c, s, cu) ==
  LET stored(r) ==
        IF r.what # "" THEN Error(s, r.what, "stack", r.at)
        ELSE emit(c, s, r.out)
  IN stored(convert(2, c.wo, cu, 2))

Holds(pred, ch) ==
  IF pred = "whitespace_pred" THEN whitespace_pred(ch) ELSE digit_pred(ch)

\* *p is read for an input pointer p = off: outside records a read of a code
\* unit that is not part of the input, which ends at lim.
looked(c, s, off) ==
  IF off + c.wi > c.lim THEN [s EXCEPT !.outside = TRUE] ELSE s

\* *(data + 1) is read.
next_looked(c, s) == looked(c, s, s.data + c.wi)

\* json_document::skip<StopPred, Flags>.
RECURSIVE skip(_, _, _)
skip(pred, c, s) ==
  IF s.data < c.end /\ Holds(pred, read(c, s.mem, s.data))
    THEN skip(pred, c, adv(c, s, 1))
    ELSE s

\* skip<internal::whitespace_pred, Flags>(data, end) and the read of *data
\* behind it.
data_looked(c, s) == looked(c, s, s.data)
skip_looked(c, s) == data_looked(c, skip("whitespace_pred", c, s))

\* while (data != end && read(*data) != '\n') ++data;
RECURSIVE line_comment(_, _)
line_comment(c, s) ==
  IF s.data = c.end THEN s
  ELSE IF ~InMem(s.mem, s.data, c.wi) THEN Fault(data_looked(c, s))
  ELSE IF read(c, s.mem, s.data) = Chr.lf THEN data_looked(c, s)
  ELSE line_comment(c, adv(c, data_looked(c, s), 1))

\* while (data != end) { if (closing) { data += 2; b = true; break; } ++data; }
RECURSIVE block_comment(_, _)
block_comment(c, s) ==
  IF s.data = c.end THEN s
  ELSE IF s.data > c.end THEN Hang(s)
  ELSE IF (c.end - s.data) \div c.wi < 2 THEN block_comment(c, adv(c, s, 1))
  ELSE IF ~InMem(s.mem, s.data, c.wi) THEN Fault(data_looked(c, s))
  ELSE IF read(c, s.mem, s.data) # Chr.star
    THEN block_comment(c, adv(c, data_looked(c, s), 1))
  ELSE IF read(c, s.mem, s.data + c.wi) = Chr.slash
    THEN [adv(c, next_looked(c, s), 2) EXCEPT !.b = TRUE]
  ELSE block_comment(c, adv(c, next_looked(c, s), 1))

\* The do ... while (b) of skip_whitespace_and_comments: *data is read
\* whether or not data has reached end.
RECURSIVE skip_comments(_, _)
skip_comments(c, s0) ==
  LET again(t) == IF Fails(t) THEN t ELSE skip_comments(c, t)
      again_if_closed(t) == IF Fails(t) \/ ~t.b THEN t ELSE skip_comments(c, t)
      comment(s) ==
        LET ch == read(c, s.mem, s.data)
            nx == read(c, s.mem, s.data + c.wi)
        IN IF ~InMem(s.mem, s.data, c.wi) THEN Fault(s)
           ELSE IF ch = Chr.hash THEN again(line_comment(c, adv(c, s, 1)))
           ELSE IF ch = Chr.slash /\ s.data + c.wi # c.end
             THEN IF ~InMem(s.mem, s.data + c.wi, c.wi) THEN Fault(s)
                  ELSE IF nx = Chr.slash
                    THEN again(line_comment(c, adv(c, next_looked(c, s), 2)))
                  ELSE IF nx = Chr.star
                    THEN again_if_closed(
                           block_comment(c, [adv(c, next_looked(c, s), 2)
                                               EXCEPT !.b = FALSE]))
                  ELSE next_looked(c, s)
           ELSE s
  IN comment(skip_looked(c, s0))

\* Every caller reads *data next unless data = end, so a pointer left behind
\* the caller's memory is a load from there.
skip_whitespace_and_comments(c, s) ==
  LET skipped(t) ==
        IF ~Fails(t) /\ t.data # c.end /\ ~InMem(t.mem, t.data, c.wi)
          THEN Fault(t) ELSE t
  IN skipped(IF parse_comments \in c.flags /\ s.data # c.end
               THEN skip_comments(c, s)
               ELSE skip("whitespace_pred", c, s))

\* internal::hex_value; 0 - 1 stands for the call of the error handler.
hex_value(ch) ==
  IF ch \in 48..57 THEN ch - 48
  ELSE IF ch \in 97..102 THEN ch - 87
  ELSE IF ch \in 65..70 THEN ch - 55
  ELSE 0 - 1

\* internal::read_utf16: the value is left in cu.  The four hex_value calls
\* are unsequenced; the inputs of the model have at most one bad digit.
read_utf16(c, s) ==
  LET p == s.data
      h == [k \in 0..3 |-> hex_value(read(c, s.mem, p + (2 + k) * c.wi))]
      bad == {k \in 0..3 : h[k] < 0}
  IN IF read(c, s.mem, p) # Chr.bslash THEN PARSE_ERROR(s, "Expected \\uXXXX", p)
     ELSE IF read(c, s.mem, p + c.wi) # Chr.u
       THEN PARSE_ERROR(s, "Expected \\uXXXX", p)
     ELSE IF bad # {}
       THEN PARSE_ERROR(s, "Expected hex character (0-9, a-f, A-F)",
                        p + (2 + (CHOOSE k \in bad : \A j \in bad : k <= j)) * c.wi)
     ELSE [adv(c, s, 6) EXCEPT !.cu = h[0] * 4096 + h[1] * 256 + h[2] * 16 + h[3]]

\* A measure_number that takes an optional minus and a run of digits.
measure_number_digits(c, s) ==
  skip("digit_pred", c,
       IF s.data < c.end /\ read(c, s.mem, s.data) = Chr.minus
         THEN adv(c, s, 1) ELSE s)

\* json_document::measure_number: data is left behind the number.
measure_number(c, s) ==
  LET \* t is behind a run of digits that began at from: an empty run is what.
      digits(from, t, what) ==
        IF t.data = from THEN PARSE_ERROR(t, what, t.data) ELSE t
      exponent(y) ==
        digits(y.data, skip("digit_pred", c, y), "Expected exponent digits")
      exponent_sign(x) ==
        exponent(IF x.data < c.end
                    /\ read(c, x.mem, x.data) \in {Chr.plus, Chr.minus}
                   THEN adv(c, x, 1) ELSE x)
      exponent_part(s3) ==
        IF Fails(s3) THEN s3
        ELSE IF s3.data < c.end /\ read(c, s3.mem, s3.data) \in {Chr.e, Chr.E}
          THEN exponent_sign(adv(c, s3, 1))
        ELSE s3
      fraction_part(s2) ==
        IF Fails(s2) THEN s2
        ELSE IF s2.data < c.end /\ read(c, s2.mem, s2.data) = Chr.dot
          THEN digits(s2.data + c.wi, skip("digit_pred", c, adv(c, s2, 1)),
                      "Expected fractional digits")
        ELSE s2
      integer_part(s1) ==
        IF s1.data < c.end /\ read(c, s1.mem, s1.data) = Chr.d0
          THEN adv(c, s1, 1)
          ELSE digits(s1.data, skip("digit_pred", c, s1), "Expected digit")
  IN exponent_part(fraction_part(integer_part(
       IF s.data < c.end /\ read(c, s.mem, s.data) = Chr.minus
         THEN adv(c, s, 1) ELSE s)))

\* while (data < num_end) internal::convert<Flags>(data, num_end, out, ...);
RECURSIVE number_copy(_, _, _)
number_copy(c, s, num_end) ==
  IF ~(s.data < num_end) THEN s
  ELSE LET copied(t) ==
             IF Fails(t) THEN t ELSE number_copy(c, written(c, t), num_end)
       IN copied(convert_input(c, s, num_end))

\* json_document::parse_number: the text of the number is left in view.
parse_number(c, s) ==
  IF c.wo = c.wi /\ ~c.swap /\ parse_no_string_terminators \in c.flags
     /\ parse_force_string_terminators \notin c.flags
    THEN LET in_place(t) ==
               IF Fails(t) THEN t
               ELSE [t EXCEPT !.view = [reg |-> "buffer", id |-> 0,
                                        b |-> s.data, e |-> t.data]]
         IN in_place(measure_number(c, s))
    ELSE LET require_alloc == c.wo > c.wi
                              \/ parse_force_string_terminators \in c.flags
             copied(out, chars, t) ==
               IF Fails(t) THEN t
               ELSE [t EXCEPT !.view =
                       [reg |-> out.reg, id |-> out.id, b |-> out.off,
                        e |-> out.off + chars * ptr_step(c, out.reg)]]
             copy(m, chars, a, out) ==
               copied(out, chars,
                      number_copy(c,
                        [(IF require_alloc
                            THEN wr_out(c, a, out.reg, out.id, chars, 0)
                            ELSE a) EXCEPT !.out = out],
                        m.data))
             allocated(m, chars, a) ==
               IF Fails(a) THEN a
               ELSE copy(m, chars, a,
                         IF require_alloc
                           THEN [reg |-> "arena", id |-> Len(a.arena), off |-> 0]
                           ELSE [reg |-> "buffer", id |-> 0, off |-> s.data])
             sized(m, chars) ==
               allocated(m, chars,
                         IF require_alloc THEN alloc(s, chars + 1) ELSE s)
             measured(m) ==
               IF Fails(m) THEN m
               ELSE sized(m, (m.data - s.data) \div c.wi)
         IN measured(measure_number(c, s))

\* The escapes that stand for one code unit.
SimpleEscapes ==
  {Chr.quote, Chr.bslash, Chr.slash, Chr.b, Chr.f, Chr.n, Chr.r, Chr.t}

IsSurrogate(u) == u >= \hd800 /\ u <= \hdfff
IsLowSurrogate(u) == u >= \hdc00 /\ u <= \hdfff

\* json_document::measure_string: data runs to the closing quote, outlen
\* counts the units of the translated string, tr is translate_required.
RECURSIVE measure_string(_, _)
measure_string(c, s) ==
  IF ~(s.data < c.end)
    THEN PARSE_ERROR(s, "Expected end-of-string '\"'", s.data)
  ELSE
    LET ch == read(c, s.mem, s.data)
        esc == read(c, s.mem, s.data + c.wi)
        \* The escape is measured from the local array cu.
        counted(after, em) ==
          IF em.what # "" THEN Error(after, em.what, "stack", em.at)
          ELSE measure_string(c, [after EXCEPT !.tr = TRUE,
                                               !.outlen = @ + Len(em.out)])
        escape(after, cu) == counted(after, measure(2, c.wo, cu, 2))
        second(hi, r2) ==
          IF Fails(r2) THEN r2
          ELSE IF ~IsLowSurrogate(r2.cu)
            THEN PARSE_ERROR(r2, "Expected UTF-16 surrogate pair",
                             r2.data - 6 * c.wi)
          ELSE escape(r2, <<hi, r2.cu>>)
        first(r1) ==
          IF Fails(r1) THEN r1
          ELSE IF IsSurrogate(r1.cu) /\ (c.end - r1.data) \div c.wi < 6
            THEN PARSE_ERROR(r1, "Expected UTF-16 surrogate pair", r1.data)
          ELSE IF IsSurrogate(r1.cu) THEN second(r1.cu, read_utf16(c, r1))
          ELSE escape(r1, <<r1.cu, Uninit>>)
        plain(m) ==
          IF m.what # "" THEN PARSE_ERROR(s, m.what, s.data + m.at * c.wi)
          ELSE measure_string(c, [adv(c, s, m.adv)
                                    EXCEPT !.outlen = @ + Len(m.out)])
    IN IF ch = Chr.quote THEN s
       ELSE IF ch = Chr.bslash
         THEN IF s.data + c.wi >= c.end
                THEN PARSE_ERROR(s, "Invalid escaped character", s.data + c.wi)
              ELSE IF esc \in SimpleEscapes
                THEN measure_string(c, [adv(c, s, 2) EXCEPT !.tr = TRUE,
                                                           !.outlen = @ + 1])
              ELSE IF esc = Chr.u
                THEN IF (c.end - s.data) \div c.wi < 6
                       THEN PARSE_ERROR(s, "Invalid \\u escape sequence", s.data)
                     ELSE first(read_utf16(c, s))
              ELSE PARSE_ERROR(s, "Invalid escaped character", s.data + c.wi)
       ELSE IF ch = 0
         THEN PARSE_ERROR(s, "Expected end-of-string '\"'", s.data)
       ELSE plain(measure(c.wi, c.wo, units(c, s.mem, s.data),
                          (c.end - s.data) \div c.wi))

\* The while (data < end) of parse_string after the decision where the
\* string goes: out is the write pointer, view.b the start of the string.
RECURSIVE parse_string_loop(_, _)
parse_string_loop(c, s) ==
  IF ~(s.data < c.end)
    THEN PARSE_ERROR(s, "Expected end-of-string '\"'", s.data)
  ELSE
    LET ch == read(c, s.mem, s.data)
        \* *++data is read without a look at end.
        bs == looked(c, s, s.data + c.wi)
        e == adv(c, bs, 1)
        esc == read(c, e.mem, e.data)
        go_on(t) ==
          IF Fails(t) THEN t ELSE parse_string_loop(c, written(c, t))
        one(u) == go_on(adv(c, emit(c, e, <<u>>), 1))
        second(hi, r2) ==
          IF Fails(r2) THEN r2
          ELSE IF ~IsLowSurrogate(r2.cu)
            THEN PARSE_ERROR(r2, "Invalid UTF-16 surrogate pair",
                             r2.data - 6 * c.wi)
          ELSE go_on(convert_escape(c, r2, <<hi, r2.cu>>))
        first(r1) ==
          IF Fails(r1) THEN r1
          ELSE IF IsSurrogate(r1.cu) /\ (c.end - r1.data) \div c.wi < 6
            THEN PARSE_ERROR(r1, "Expected UTF-16 surrogate pair", r1.data)
          ELSE IF IsSurrogate(r1.cu) THEN second(r1.cu, read_utf16(c, r1))
          ELSE go_on(convert_escape(c, r1, <<r1.cu, Uninit>>))
    IN IF ch = Chr.quote
         THEN [adv(c, wr_out(c, s, s.out.reg, s.out.id, s.out.off, 0), 1)
                 EXCEPT !.view.e = s.out.off]
       ELSE IF ch = Chr.bslash
         THEN IF ~InMem(e.mem, e.data, c.wi) THEN Fault(e)
              ELSE IF esc \in {Chr.quote, Chr.bslash, Chr.slash}
                THEN go_on(convert_input(c, e, c.end))
              ELSE IF esc \in {Chr.b, Chr.f, Chr.n, Chr.r, Chr.t}
                THEN one(IF esc = Chr.b THEN 8
                         ELSE IF esc = Chr.f THEN 12
                         ELSE IF esc = Chr.n THEN 10
                         ELSE IF esc = Chr.r THEN 13
                         ELSE 9)
              ELSE IF esc = Chr.u
                THEN IF (c.end - s.data) \div c.wi < 6
                       THEN PARSE_ERROR(bs, "Invalid \\u escape sequence", s.data)
                     ELSE first(read_utf16(c, bs))
              ELSE PARSE_ERROR(e, "Invalid escaped character", e.data)
       ELSE IF ch = 0
         THEN PARSE_ERROR(s, "Expected end-of-string '\"'", s.data)
       ELSE go_on(convert_input(c, s, c.end))

\* parse_string behind the measuring (m is what measure_string left): the
\* string stays where it is, or is translated in place or into the pool.
translate_string(c, s, m) ==
  LET force == parse_force_string_terminators \in c.flags
      require_alloc == c.wo > c.wi \/ force
                       \/ parse_no_inline_translation \in c.flags
      a == IF require_alloc THEN alloc(s, m.outlen + 1) ELSE s
      out == IF require_alloc
               THEN [reg |-> "arena", id |-> Len(a.arena), off |-> 0]
               ELSE [reg |-> "buffer", id |-> 0, off |-> s.data]
  IN IF Fails(m) THEN m
     ELSE IF parse_no_string_terminators \in c.flags /\ ~m.tr
       THEN [s EXCEPT !.view = [reg |-> "buffer", id |-> 0,
                                b |-> s.data, e |-> m.data],
                      !.data = m.data + c.wi]
     ELSE IF Fails(a) THEN a
     ELSE parse_string_loop(c,
            [a EXCEPT !.out = out,
                      !.view = [reg |-> out.reg, id |-> out.id,
                                b |-> out.off, e |-> out.off]])

\* json_document::parse_string, entered behind the opening quote; the string
\* is left in view.
parse_string(c, s) ==
  LET measured == c.wo > c.wi \/ c.swap
                  \/ c.flags \cap {parse_force_string_terminators,
                                   parse_no_string_terminators,
                                   parse_no_inline_translation} # {}
  IN translate_string(c, s,
       IF measured
         THEN measure_string(c, [s EXCEPT !.tr = (c.swap \/ c.wo # c.wi),
                                          !.outlen = 0])
         ELSE [s EXCEPT !.tr = TRUE])

\* A node of the tree under construction: its type_, the pointers of its
\* name and of its text, and its children in list order.
Node(kind, text, kids) == [kind |-> kind, name |-> NoView, text |-> text, kids |-> kids]

\* if (no terminator flag && *lastchild->valueend_ != 0) *lastchild->valueend_ = 0;
close_off(c, s, last) ==
  LET v == last.text
  IN IF c.flags \cap {parse_no_string_terminators, parse_force_string_terminators} = {}
        /\ rd_out(c, s, v.reg, v.id, v.e) # 0
       THEN wr_out(c, s, v.reg, v.id, v.e, 0)
       ELSE s

\* (end - data) >= Len(w) && data[1..] spell the rest of the literal w.
literal(c, s, w) ==
  /\ (c.end - s.data) \div c.wi >= Len(w)
  /\ \A i \in 2..Len(w) : read(c, s.mem, s.data + (i - 1) * c.wi) = w[i]

at(c, s, ch) == s.data # c.end /\ read(c, s.mem, s.data) = ch

\* A closer taken behind a comma whatever the flags.
trailing_close_always(c, s, closer) == at(c, s, closer)

\* if (Flags & parse_trailing_commas) if (data != end && *data == closer)
trailing_close(c, s, closer) ==
  parse_trailing_commas \in c.flags /\ at(c, s, closer)

RECURSIVE parse_value(_, _)
RECURSIVE parse_object(_, _)
RECURSIVE parse_array(_, _)
RECURSIVE object_members(_, _, _)
RECURSIVE array_elements(_, _, _)

RECURSIVE object_name(_, _, _)
RECURSIVE object_value(_, _, _, _)
RECURSIVE array_element(_, _, _)

\* A parsed number or string becomes the node of the value.
text_value(kind, t) ==
  IF Fails(t) THEN t ELSE [t EXCEPT !.node = Node(kind, t.view, << >>)]

\* parse_object behind the value v of a member named nm: the separator or the
\* closing brace.
object_value(c, v, nm, kids) ==
  LET kid == [v.node EXCEPT !.name = nm]
      w3 == skip_whitespace_and_comments(c, v)
      w4 == skip_whitespace_and_comments(c, adv(c, w3, 1))
      cl == close_off(c, w4, kid)
      done(t) == [t EXCEPT !.node = Node("value_object", NoView, Append(kids, kid))]
  IN IF Fails(v) THEN v
     ELSE IF Fails(w3) THEN w3
     ELSE IF at(c, w3, Chr.comma)
       THEN IF Fails(w4) THEN w4
            ELSE IF trailing_close(c, cl, Chr.rbrace)
              THEN done(adv(c, cl, 1))
            ELSE object_members(c, cl, Append(kids, kid))
     ELSE IF at(c, w3, Chr.rbrace) THEN done(close_off(c, adv(c, w3, 1), kid))
     ELSE PARSE_ERROR(w3, "Expected value-separator ',' or end-of-object '}'",
                      w3.data)

\* parse_object behind the name of a member (n is what parse_string left):
\* the name separator and the value.
object_name(c, n, kids) ==
  LET w1 == skip_whitespace_and_comments(c, n)
      w2 == skip_whitespace_and_comments(c, adv(c, w1, 1))
  IN IF Fails(n) THEN n
     ELSE IF Fails(w1) THEN w1
     ELSE IF ~at(c, w1, Chr.colon)
       THEN PARSE_ERROR(w1, "Expected name separator (:)", w1.data)
     ELSE IF Fails(w2) THEN w2
     ELSE object_value(c, parse_value(c, w2), n.view, kids)

\* The for (;;) of parse_object, kids being the children added so far.
object_members(c, s, kids) ==
  IF ~at(c, s, Chr.quote) THEN PARSE_ERROR(s, "Expected name (string)", s.data)
  ELSE object_name(c, parse_string(c, adv(c, s, 1)), kids)

\* json_document::parse_object, entered behind the opening brace.
parse_object(c, s) ==
  LET w == skip_whitespace_and_comments(c, s)
  IN IF Fails(w) THEN w
     ELSE IF at(c, w, Chr.rbrace)
       THEN [adv(c, w, 1) EXCEPT !.node = Node("value_object", NoView, << >>)]
     ELSE IF ~at(c, w, Chr.quote)
       THEN PARSE_ERROR(w, "Expected end-of-object '}' or name (string)", w.data)
     ELSE object_members(c, w, << >>)

\* parse_array behind the element v: the separator or the closing bracket.
array_element(c, v, kids) ==
  LET kid == v.node
      w3 == skip_whitespace_and_comments(c, v)
      w4 == skip_whitespace_and_comments(c, adv(c, w3, 1))
      cl == close_off(c, w4, kid)
      done(t) == [t EXCEPT !.node = Node("value_array", NoView, Append(kids, kid))]
  IN IF Fails(v) THEN v
     ELSE IF Fails(w3) THEN w3
     ELSE IF at(c, w3, Chr.comma)
       THEN IF Fails(w4) THEN w4
            ELSE IF trailing_close(c, cl, Chr.rbracket)
              THEN done(adv(c, cl, 1))
            ELSE array_elements(c, cl, Append(kids, kid))
     ELSE IF at(c, w3, Chr.rbracket) THEN done(close_off(c, adv(c, w3, 1), kid))
     ELSE PARSE_ERROR(w3, "Expected value-separator ',' or end-of-array ']'",
                      w3.data)

\* The for (;;) of parse_array.
array_elements(c, s, kids) == array_element(c, parse_value(c, s), kids)

\* json_document::parse_array, entered behind the opening bracket.
parse_array(c, s) ==
  LET w == skip_whitespace_and_comments(c, s)
  IN IF Fails(w) THEN w
     ELSE IF at(c, w, Chr.rbracket)
       THEN [adv(c, w, 1) EXCEPT !.node = Node("value_array", NoView, << >>)]
     ELSE array_elements(c, w, << >>)

\* json_document::parse_value: the new node is left in node.
parse_value(c, s) ==
  LET ch == read(c, s.mem, s.data)
      a == allocate_value(s)
      leaf(kind, reg, n) ==
        [adv(c, a, n) EXCEPT !.node =
           Node(kind, [reg |-> reg, id |-> 0, b |-> 0, e |-> n], << >>)]
  IN IF s.data = c.end THEN PARSE_ERROR(s, "Expected value", s.data)
     ELSE IF ch \in {Chr.minus, Chr.dot} \/ digit_pred(ch)
       THEN IF Fails(a) THEN a
            ELSE text_value("value_number", parse_number(c, a))
     ELSE IF ch = Chr.f /\ literal(c, s, SubSeq(falsestr, 1, 5))
       THEN IF Fails(a) THEN a ELSE leaf("value_bool", "falsestr", 5)
     ELSE IF ch = Chr.t /\ literal(c, s, SubSeq(truestr, 1, 4))
       THEN IF Fails(a) THEN a ELSE leaf("value_bool", "truestr", 4)
     ELSE IF ch = Chr.n /\ literal(c, s, SubSeq(nullstr, 1, 4))
       THEN IF Fails(a) THEN a ELSE leaf("value_null", "nullstr", 4)
     ELSE IF ch = Chr.lbrace
       THEN IF Fails(a) THEN a ELSE parse_object(c, adv(c, a, 1))
     ELSE IF ch = Chr.lbracket
       THEN IF Fails(a) THEN a ELSE parse_array(c, adv(c, a, 1))
     ELSE IF ch = Chr.quote
       THEN IF Fails(a) THEN a
            ELSE text_value("value_string", parse_string(c, adv(c, a, 1)))
     ELSE PARSE_ERROR(s, "Expected value", s.data)

\* root_ = (what parse_object or parse_array returned), and the rest of
\* parse_internal: nothing but whitespace, comments or a terminator follows.
assign_root(c, r) ==
  LET t == [r EXCEPT !.root = r.node, !.rootset = TRUE]
      w == skip_whitespace_and_comments(c, t)
  IN IF Fails(r) THEN r
     ELSE IF Fails(w) THEN w
     ELSE IF w.data # c.end /\ read(c, w.mem, w.data) # 0
       THEN PARSE_ERROR(w, "Expected end of document", w.data)
     ELSE w

\* json_document::parse_internal: root_ is assigned when parse_object or
\* parse_array has returned.
parse_internal(c, s0) ==
  LET s == skip_whitespace_and_comments(c, s0)
      a == allocate_value(s)
  IN IF Fails(s) THEN s
     ELSE IF s.data = c.end THEN PARSE_ERROR(s, "Expected '{' or '['", s.data)
     ELSE IF ~at(c, s, Chr.lbrace) /\ ~at(c, s, Chr.lbracket)
       THEN PARSE_ERROR(s, "Expected '{' or '['", s.data)
     ELSE IF Fails(a) THEN a
     ELSE assign_root(c, IF at(c, s, Chr.lbrace)
                           THEN parse_object(c, adv(c, a, 1))
                           ELSE parse_array(c, adv(c, a, 1)))

\* What one call fixes: the widths of the input and of the document, the
\* byte order, the flags and the end pointer.
Cfg(enc, wo, flags, num_bytes) ==
  [wi |-> encoding_sizes(enc), swap |-> parse_do_swap(enc), wo |-> wo,
   flags |-> flags, end |-> num_bytes, lim |-> num_bytes]

\* json_document::parse<Flags>(data, num_bytes, enc) with enc given; m is the
\* caller's memory from data on, heap the allocations the pool still grants.
parse_document(m, num_bytes, enc, wo, flags, heap) ==
  IF num_bytes = 0 THEN PARSE_ERROR(PState(m, heap), "Expected '{' or '['", 0)
  ELSE parse_internal(Cfg(enc, wo, flags, num_bytes), PState(m, heap))

\* The document as root() shows it after the call: every name and text read
\* through its pointers in the memory the call left.
ViewUnits(c, s, v) ==
  [i \in 1..((v.e - v.b) \div ptr_step(c, v.reg)) |->
     rd_out(c, s, v.reg, v.id, v.b + (i - 1) * ptr_step(c, v.reg))]

RECURSIVE Resolve(_, _, _)
Resolve(c, s, n) ==
  [kind |-> n.kind, name |-> ViewUnits(c, s, n.name),
   text |-> ViewUnits(c, s, n.text),
   kids |-> [i \in 1..Len(n.kids) |-> Resolve(c, s, n.kids[i])]]

\* ---- the calls of parse the model makes.

\* Allocations a pool with memory to spare grants to one call.
NoLimit == 64

\* Pool allocations granted to a call that runs out of memory.
MaxGrants == 2

\* Calls of parse on one document.
MaxParses == 2

\* Length of the number texts.
MaxNumLen == 4

\* What the caller has behind the buffer, in code units of the input: a
\* terminator, or the start of something else.
Tails == {<<0, 0>>, <<35, 0>>}

FlagSets ==
  {parse_default, parse_non_destructive, parse_non_destructive_nul,
   {parse_no_string_terminators}, {parse_no_inline_translation},
   {parse_trailing_commas}, {parse_comments},
   {parse_trailing_commas, parse_comments}}

Texts ==
  {
   <<91, 49, 93>>,
     \* [1]
   <<91, 49, 44, 50, 93>>,
     \* [1,2]
   <<91, 45, 49, 46, 53, 101, 43, 51, 44, 116, 114, 117, 101, 93>>,
     \* [-1.5e+3,true]
   <<123, 34, 97, 34, 58, 34, 98, 34, 125>>,
     \* {"a":"b"}
   <<123, 34, 97, 34, 58, 91, 102, 97, 108, 115, 101, 44, 110, 117, 108, 108, 44, 34, 120, 92, 110, 92, 34, 121, 34, 93, 44, 34, 98, 34, 58, 123, 125, 125>>,
     \* {"a":[false,null,"x\n\"y"],"b":{}}
   <<32, 91, 32, 34, 97, 34, 32, 44, 32, 49, 32, 93, 32>>,
     \* [ "a" , 1 ]
   <<91, 34, 233, 34, 93>>,
     \* ["U+00E9"]
   <<91, 34, 8364, 34, 93>>,
     \* ["U+20AC"]
   <<91, 34, 119070, 34, 93>>,
     \* ["U+1D11E"]
   <<123, 34, 233, 8364, 34, 58, 34, 119070, 34, 125>>,
     \* {"U+00E9U+20AC":"U+1D11E"}
   <<91, 34, 92, 117, 48, 48, 101, 57, 92, 117, 50, 48, 97, 99, 34, 93>>,
     \* ["\u00e9U+20AC"]
   <<>>,
     \* (empty)
   <<32>>,
     \* (empty)
   <<120>>,
     \* x
   <<32, 120>>,
     \* x
   <<123, 125, 32, 123, 125>>,
     \* {} {}
   <<91, 93, 32, 91, 93>>,
     \* [] []
   <<91, 93, 32>>,
     \* []
   <<91, 93, 0, 120>>,
     \* []U+0000x
   <<91, 93, 32, 0>>,
     \* [] U+0000
   <<91, 49>>,
     \* [1
   <<123, 34, 97, 34, 125>>,
     \* {"a"}
   <<91, 49, 44, 93>>,
     \* [1,]
   <<123, 34, 97, 34, 58, 49, 44, 125>>,
     \* {"a":1,}
   <<91, 44, 93>>,
     \* [,]
   <<123, 44, 125>>,
     \* {,}
   <<91, 49, 44, 44, 93>>,
     \* [1,,]
   <<123, 34, 97, 34, 58, 49, 44, 44, 125>>,
     \* {"a":1,,}
   <<91, 49, 32, 44, 32, 93>>,
     \* [1 , ]
   <<35, 99, 10, 91, 49, 93>>,
     \* #c(LF)[1]
   <<91, 49, 93, 47, 47, 99>>,
     \* [1]//c
   <<91, 47, 42, 99, 42, 47, 49, 93>>,
     \* [/*c*/1]
   <<91, 49, 93, 47, 42, 99, 42, 47>>,
     \* [1]/*c*/
   <<91, 49, 93, 32, 35, 99, 10>>,
     \* [1] #c(LF)
   <<123, 34, 97, 34, 47, 42, 99, 42, 47, 58, 49, 125>>,
     \* {"a"/*c*/:1}
   <<91, 47, 42, 99>>,
     \* [/*c
   <<47>>,
     \* /
   <<91, 34, 35, 47, 34, 93>>,
     \* ["#/"]
   <<91, 49, 47, 50, 93>>,
     \* [1/2]
   <<91, 32, 34, 92, 117, 100, 56, 48, 48, 34, 32, 93>>,
     \* [ "\ud800" ]
   <<91, 34, 92, 117, 100, 99, 48, 48, 34, 93>>,
     \* ["\udc00"]
   <<91, 34, 92, 117, 100, 99, 48, 48, 92, 117, 100, 99, 48, 48, 34, 93>>,
     \* ["\udc00\udc00"]
   <<91, 34, 92, 117, 100, 56, 48, 48, 92, 117, 100, 56, 48, 48, 34, 93>>,
     \* ["\ud800\ud800"]
   <<91, 34, 92, 117, 100, 56, 48, 48, 120, 34, 93>>,
     \* ["\ud800x"]
   <<91, 34, 92, 117, 100, 56, 48, 48, 92, 117, 48, 48, 52, 49, 34, 93>>,
     \* ["\ud800\u0041"]
   <<91, 34, 92, 117, 100, 56>>,
     \* ["\ud8
   <<91, 34, 92, 117, 49, 50, 103, 52, 34, 93>>,
     \* ["\u12g4"]
   <<91, 34, 92, 120, 34, 93>>,
     \* ["\x"]
   <<91, 34, 92, 117, 100, 56, 48, 48, 97, 98, 99, 100, 101, 102, 34, 93>>,
     \* ["\ud800abcdef"]
   <<91, 34, 97>>
     \* ["a
  }

\* \uXXXX for the value v, and a one-string array around a string body.
HexDigit(d) == IF d < 10 THEN 48 + d ELSE 87 + d
Esc(v) ==
  <<92, 117, HexDigit(v \div 4096), HexDigit((v \div 256) % 16),
    HexDigit((v \div 16) % 16), HexDigit(v % 16)>>
StringArray(body) == <<91, 34>> \o body \o <<34, 93>>

Highs == {\hd800, \hd834, \hdbff}
Lows == {\hdc00, \hdd1e, \hdfff}
PairTexts == {StringArray(Esc(h) \o Esc(l)) : h \in Highs, l \in Lows}

\* Every text of 1..MaxNumLen units over - + . e E 0 1, as the one element
\* of an array.
NumAlphabet == {45, 43, 46, 101, 69, 48, 49}
NumberTexts ==
  UNION {[1..n -> NumAlphabet] : n \in 1..MaxNumLen}
ElementArray(t) == <<91>> \o t \o <<93>>

Input(T, enc, flags, tail, heap) ==
  [T |-> T, enc |-> enc, flags |-> flags, tail |-> tail, heap |-> heap]

\* What lies behind the buffer matters to a call that looks there: the calls
\* with parse_comments are made with every tail, the others with a terminator.
TextInputs ==
  {Input(T, enc, fl, tail, NoLimit) :
     T \in Texts \cup PairTexts, enc \in Encodings,
     fl \in {f \in FlagSets : parse_comments \in f}, tail \in Tails}
  \cup
  {Input(T, enc, fl, <<0, 0>>, NoLimit) :
     T \in Texts \cup PairTexts, enc \in Encodings, fl \in FlagSets}

NumberInputs ==
  {Input(ElementArray(t), "utf8", parse_default, <<0, 0>>, NoLimit) :
     t \in NumberTexts}

\* Calls on a pool that grants only heap allocations.
StarvedInputs ==
  {Input(T, enc, fl, <<0, 0>>, heap) :
     T \in {<<91, 49, 93>>, <<123, 34, 97, 34, 58, 34, 98, 34, 125>>},
     enc \in {"utf8", "utf16"},
     fl \in {parse_default, parse_non_destructive_nul},
     heap \in 0..MaxGrants}


\* The later calls on a document: one that succeeds, and one failing before,
\* inside and behind the root container.
AgainInputs ==
  {Input(T, "utf8", parse_default, <<0, 0>>, NoLimit) :
     T \in {<<91, 50, 93>>, <<32, 120>>, <<91, 50, 44>>, <<91, 93, 32, 91, 93>>}}

\* What the document and the caller's memory are when the call has returned
\* (or has left through the error handler) with the parse state s.
Return(in, m, n, s) ==
  /\ mem' = s.mem
  /\ root_' = IF s.rootset
                THEN Resolve(Cfg(in.enc, pcall.wo, in.flags, n), s, s.root)
                ELSE root_
  /\ pcall' = [n |-> pcall.n + 1, T |-> in.T, enc |-> in.enc,
               flags |-> in.flags, tail |-> in.tail, heap |-> in.heap,
               wo |-> pcall.wo, num_bytes |-> n, before |-> m,
               what |-> s.what, reg |-> s.reg, off |-> s.off,
               rootset |-> s.rootset, prev |-> root_, ahead |-> s.ahead,
               outside |-> s.outside]
  /\ UNCHANGED <<vars, mvars, prn>>

\* One call of parse on the document; root() afterwards shows what root_
\* points to.
Call(in) ==
  LET m == Encode(in.enc, in.T \o in.tail)
      n == Len(Encode(in.enc, in.T))
  IN Return(in, m, n,
            parse_document(m, n, in.enc, pcall.wo, in.flags, in.heap))

\* A call that faulted or hung is the last thing the program does.
Returned == pcall.what \notin {"fault", "hang"}

Parse == pcall.n = 0 /\ \E in \in TextInputs \cup StarvedInputs : Call(in)

\* The number texts are parsed into the document over 8-bit code units.
ParseNumber == pcall.n = 0 /\ pcall.wo = 1 /\ \E in \in NumberInputs : Call(in)

\* The documents parsed more than once are those of these texts.
ReparsedTexts ==
  {<<91, 49, 93>>, <<123, 34, 97, 34, 58, 34, 98, 34, 125>>, <<32, 120>>}

ParseAgain ==
  /\ pcall.n >= 1
  /\ pcall.n < MaxParses
  /\ Returned
  /\ pcall.T \in ReparsedTexts
  /\ \E in \in AgainInputs : Call(in)

\* A document over code units of 1, 2 or 4 bytes, fresh from its constructor.
ParseInit ==
  /\ owner = InitHeap.owner
  /\ prev = InitHeap.prev
  /\ next = InitHeap.next
  /\ name = InitHeap.name
  /\ child = InitHeap.child
  /\ lastchild = InitHeap.lastchild
  /\ numchildren = InitHeap.numchildren
  /\ call = NoCall
  /\ ncalls = 0
  /\ mem = << >>
  /\ root_ = EmptyRoot
  /\ \E wo \in {1, 2, 4} : pcall = [NoParse EXCEPT !.wo = wo]
  /\ PoolIdle
  /\ prn = NoPrint

ParseNext ==
  \/ Parse
  \/ ParseNumber
  \/ ParseAgain

ParseSpec == ParseInit /\ [][ParseNext]_<<vars, pvars>>

\* ------------------------------------------------------------- properties
Range(s) == {s[i] : i \in 1..Len(s)}

Reverse(s) == [i \in 1..Len(s) |-> s[Len(s) + 1 - i]]

\* The nodes met from p along link, up to a null link or a node met before.
RECURSIVE ChainFrom(_, _, _)
ChainFrom(link, p, acc) ==
  IF p = NULL \/ p \in Range(acc) THEN acc
  ELSE ChainFrom(link, link[p], Append(acc, p))

\* The children of c in the heap h: following next_ from child_, and
\* following prev_ from lastchild_.
Fwd(h, c) == ChainFrom(h.next, h.child[c], << >>)
Bwd(h, c) == ChainFrom(h.prev, h.lastchild[c], << >>)

\* The child list of c is a consistent doubly-linked list of numchildren_
\* values.
ListOK(h, c) ==
  LET f == Fwd(h, c)
      b == Bwd(h, c)
  IN /\ f = << >> => h.child[c] = NULL /\ h.lastchild[c] = NULL
     /\ f # << >> => /\ h.prev[f[1]] = NULL
                     /\ h.next[f[Len(f)]] = NULL
                     /\ h.lastchild[c] = f[Len(f)]
     /\ b = Reverse(f)
     /\ \A i \in 1..(Len(f) - 1) : h.prev[f[i + 1]] = f[i]
     /\ h.numchildren[c] = Len(f)

\* s with x put before its element number i + 1 (at the end when i = Len(s)).
InsertAt(s, i, x) == SubSeq(s, 1, i) \o <<x>> \o SubSeq(s, i + 1, Len(s))

\* s without its element number i.
RemoveAt(s, i) == SubSeq(s, 1, i - 1) \o SubSeq(s, i + 1, Len(s))

Min(a, b) == IF a < b THEN a ELSE b
Max(a, b) == IF a < b THEN b ELSE a

\* Everything but the record of the call is as before the step.
HeapUnchanged == Heap' = Heap

\* v is a child of c: it is met following next_ from c's first child.
InList(h, c, v) == v \in Range(Fwd(h, c))

\* C1: after any sequence of mutator calls on a parsed or empty container the
\* child list of every container is a consistent doubly-linked list:
\* first_child.prev and last_child.next are null, the walk along next visits
\* the values of the walk along prev, x.next.prev = x, and child_count is the
\* number of values visited.
C1_ChildListConsistent ==
  call.status = "returned" => \A c \in Containers : ListOK(Heap, c)

\* C2 (state part): every value is in the child list of at most one
\* container, and its owner link is that container exactly while it is in a
\* child list.
C2_OneOwner ==
  \A v \in Values :
    /\ \A c, d \in Containers : InList(Heap, c, v) /\ InList(Heap, d, v) => c = d
    /\ \A c \in Containers : InList(Heap, c, v) <=> owner[v] = c

\* C2 (call part): array_add, array_insert, array_set and object_set given a
\* value that is a child of some container return false and change nothing.
C2_OwnedRejected ==
  (/\ call'.op \in {"array_add", "array_insert", "array_set", "object_set"}
   /\ call'.val # NULL
   /\ \E c \in Containers : InList(Heap, c, call'.val))
  => call'.ok = FALSE /\ HeapUnchanged

\* C2: in every state reachable through the mutators a value belongs to at
\* most one container, its owner link says which, and the four attaching
\* mutators refuse a value that is already a child.
C2_SingleOwnership == [](C2_OneOwner) /\ [][C2_OwnedRejected]_vars

\* One step of the program as C3 describes it.
C3_Step ==
  LET self == call'.self
      v == call'.val
      nm == call'.name
      f == Fwd(Heap, self)
      hit == {i \in 1..Len(f) : name[f[i]] = nm}
  IN (/\ call'.op = "object_set"
      /\ v # NULL /\ owner[v] = NULL /\ nm # emptystr
      /\ ListOK(Heap, self)
      /\ \A c \in Containers : ~InList(Heap, c, v))
     => /\ call'.status = "returned"
        /\ call'.ok = TRUE
        /\ ListOK(Heap', self)
        /\ owner'[v] = self
        /\ IF hit # {}
           THEN LET i == CHOOSE k \in hit : \A j \in hit : k <= j
                IN /\ call'.old = f[i]
                   /\ Fwd(Heap', self) = [f EXCEPT ![i] = v]
                   /\ owner'[f[i]] = NULL
                   /\ numchildren'[self] = numchildren[self]
           ELSE /\ call'.old = NULL
                /\ Fwd(Heap', self) = Append(f, v)

\* C3: object_set(name, v, &old) on an object with a child c of that name
\* returns true, stores c in old, puts v at c's position (first_child and
\* last_child following), makes the object v's owner, leaves c detached and
\* the count unchanged; with no such child v becomes the last child and old
\* is null.
C3_ObjectSetReplaces == [][C3_Step]_vars

\* One step of the program as C4 describes it.
C4_Step ==
  LET self == call'.self
      v == call'.val
      i == call'.index
      f == Fwd(Heap, self)
      n == Len(f)
      pos == IF i >= 0 THEN Min(i, n) ELSE Max(n + i, 0)
  IN (/\ call'.op = "array_insert"
      /\ v # NULL /\ owner[v] = NULL
      /\ ListOK(Heap, self)
      /\ \A c \in Containers : ~InList(Heap, c, v))
     => /\ call'.ok = TRUE
        /\ Fwd(Heap', self) = InsertAt(f, pos, v)
        /\ ListOK(Heap', self)

\* C4: array_insert(v, i) on an array of n children with an unowned v returns
\* true and puts v at position min(i, n) for i >= 0, before the child at(i)
\* selects for -n <= i < 0, before the first child for i <= -n; the n
\* children keep their order.
C4_ArrayInsertPosition == [][C4_Step]_vars

\* One step of the program as C5 describes it.
C5_Step ==
  LET self == call'.self
      v == call'.val
      i == call'.index
      f == Fwd(Heap, self)
      n == Len(f)
  IN (/\ call'.op = "array_set"
      /\ v # NULL /\ owner[v] = NULL
      /\ ListOK(Heap, self)
      /\ \A c \in Containers : ~InList(Heap, c, v))
     => /\ (0 <= i /\ i < n) =>
             /\ call'.ok = TRUE
             /\ Fwd(Heap', self) = [f EXCEPT ![i + 1] = v]
             /\ owner'[f[i + 1]] = NULL
             /\ numchildren'[self] = n
        /\ i = n =>
             /\ call'.ok = TRUE
             /\ Fwd(Heap', self) = Append(f, v)
             /\ numchildren'[self] = n + 1
        /\ (i > n \/ i < 0 - n) => call'.ok = FALSE /\ HeapUnchanged

\* C5: array_set(i, v) on an array of n children replaces the child at i for
\* 0 <= i < n (that child is detached, n unchanged), appends for i = n
\* (child_count n + 1), and for an index beyond n or a negative index that
\* names no child returns false and leaves the array as it was.
C5_ArraySetIndex == [][C5_Step]_vars

\* One step of the program as C6 describes it.
C6_Step ==
  LET self == call'.self
      f == Fwd(Heap, self)
  IN (call'.op = "remove_all" /\ ListOK(Heap, self))
     => /\ call'.status = "returned"
        /\ child'[self] = NULL
        /\ lastchild'[self] = NULL
        /\ numchildren'[self] = 0
        /\ \A k \in 1..Len(f) :
             /\ owner'[f[k]] = NULL
             /\ prev'[f[k]] = NULL
             /\ next'[f[k]] = NULL

\* C6: remove_all() on a container of n >= 0 children returns and leaves it
\* with no first child, no last child and child_count 0, and each of the n
\* former children with owner null and no sibling links (so array_add and
\* object_set accept each of them again).
C6_RemoveAllDetaches == [][C6_Step]_vars

\* One step of the program as C7 describes it.
C7_Step ==
  LET self == call'.self
      i == call'.index
      f == Fwd(Heap, self)
      n == Len(f)
      k == IF i >= 0 THEN Min(i, n - 1) + 1 ELSE Max(n + i, 0) + 1
  IN (call'.op = "array_remove" /\ ListOK(Heap, self))
     => /\ call'.status = "returned"
        /\ IF n = 0
           THEN call'.ret = NULL /\ HeapUnchanged
           ELSE /\ call'.ret = f[k]
                /\ Fwd(Heap', self) = RemoveAt(f, k)
                /\ ListOK(Heap', self)
                /\ numchildren'[self] = n - 1
                /\ owner'[f[k]] = NULL
                /\ \A j \in 1..n : j # k => owner'[f[j]] = owner[f[j]]
                /\ LET r == array_add(Heap', self, f[k])
                   IN /\ r.ok = TRUE
                      /\ Fwd(r.h, self) = Append(RemoveAt(f, k), f[k])
                      /\ ListOK(r.h, self)

\* C7: array_remove(i) on an array with a consistent list of n >= 1 children
\* detaches and returns exactly one child: number min(i, n-1) for i >= 0,
\* counted back from the last and clamped to the first for i < 0; the others
\* keep their order, child_count becomes n-1, the returned value has owner
\* null and array_add takes it again; on an empty array it returns null and
\* changes nothing.
C7_ArrayRemoveDetachesOne == [][C7_Step]_vars

\* An index past the end was clamped: the last of at least two children was
\* removed and is detached, the rest is a consistent list.
C7_Witness ==
  /\ call.op = "array_remove"
  /\ call.status = "returned"
  /\ call.ret \in Scalars
  /\ numchildren[call.self] >= 1
  /\ call.index > numchildren[call.self]
  /\ ListOK(Heap, call.self)
  /\ owner[call.ret] = NULL
  /\ ~InList(Heap, call.self, call.ret)

\* One step of the program as C8 describes it.
C8_Step ==
  LET self == call'.self
      i == call'.index
      f == Fwd(Heap, self)
      n == Len(f)
  IN (call'.op = "at_index" /\ ListOK(Heap, self))
     => /\ call'.status = "returned"
        /\ HeapUnchanged
        /\ call'.ret = IF 0 <= i /\ i < n THEN f[i + 1]
                       ELSE IF 0 - n <= i /\ i < 0 THEN f[n + i + 1]
                       ELSE NullVal

\* C8: at(i) on a container of n children returns child number i from the
\* first for 0 <= i < n, the child counted back from the last for
\* -n <= i < 0 (at(-1) is at(n-1)), the null sentinel for every other i.
C8_AtIndex == [][C8_Step]_vars

\* One step of the program as C9 describes it.
C9_Step ==
  LET self == call'.self
      nm == call'.name
      f == Fwd(Heap, self)
      hit == {i \in 1..Len(f) : name[f[i]] = nm}
  IN call'.op = "at_name"
     => /\ call'.status = "returned"
        /\ HeapUnchanged
        /\ call'.ret = IF hit = {} THEN NullVal
                       ELSE f[CHOOSE k \in hit : \A j \in hit : k <= j]

\* C9: at(name) on an object returns the first child in list order whose name
\* has the length and the code units of the query, also when several
\* children carry the name, and the null sentinel when none does; it changes
\* nothing.
C9_AtName == [][C9_Step]_vars

\* C10: in every reachable state the shared null sentinel has kind null, an
\* empty name, no owner and no siblings, and is in no container's list.
C10_SentinelUntouched ==
  /\ is_null(NullVal)
  /\ name[NullVal] = emptystr
  /\ owner[NullVal] = NULL
  /\ prev[NullVal] = NULL
  /\ next[NullVal] = NULL
  /\ \A c \in Containers : ~InList(Heap, c, NullVal)

\* ------------------------------------------------- properties of the parser

\* The num_bytes bytes handed to parse, in the memory m.
Buffer(m) == SubSeq(m, 1, pcall.num_bytes)

\* C11: a call of parse with parse_non_destructive (no string terminators and
\* no inline translation) leaves the caller's buffer byte for byte as it was
\* before the call, for every input, input encoding and document width.
C11_NonDestructiveKeepsBuffer ==
  (pcall.n >= 1 /\ parse_non_destructive \subseteq pcall.flags)
    => Buffer(mem) = Buffer(pcall.before)

\* The encoding of a document's own width in the host's byte order.
NativeEnc(wo) == IF wo = 1 THEN "utf8" ELSE IF wo = 2 THEN "utf16" ELSE "utf32"

\* The last call made again on the same text in the document's own width.
NativeRun ==
  parse_document(Encode(NativeEnc(pcall.wo), pcall.T \o pcall.tail),
                 Len(Encode(NativeEnc(pcall.wo), pcall.T)),
                 NativeEnc(pcall.wo), pcall.wo, pcall.flags, pcall.heap)

NativeTree ==
  Resolve(Cfg(NativeEnc(pcall.wo), pcall.wo, pcall.flags,
              Len(Encode(NativeEnc(pcall.wo), pcall.T))),
          NativeRun, NativeRun.root)

\* C12: a text parsed from any of the five input encodings succeeds exactly
\* when the same text parsed in the document's own width succeeds, and the
\* two trees have the same kinds, child order, names and scalar texts (equal
\* code units of the same width, hence the same code points).
C12_SameTreeFromEveryEncoding ==
  (pcall.n >= 1 /\ pcall.heap = NoLimit) =>
    /\ (pcall.what = "") = (NativeRun.what = "")
    /\ pcall.what = "" => root_ = NativeTree

\* The text of the last call is plain: ASCII, with nothing that could start
\* a comment.
PlainText == \A i \in 1..Len(pcall.T) : pcall.T[i] < 128 /\ pcall.T[i] \notin {35, 47}

\* The first position from k on whose unit is not in skipped, or one past
\* the end of the text.
FirstNotIn(T, k, skipped) ==
  IF \E i \in k..Len(T) : T[i] \notin skipped
    THEN CHOOSE i \in k..Len(T) :
           T[i] \notin skipped /\ \A j \in k..(i - 1) : T[j] \in skipped
    ELSE Len(T) + 1

ErrorAt(what, pos) ==
  /\ pcall.what = what
  /\ pcall.reg = "buffer"
  /\ pcall.off = (pos - 1) * encoding_sizes(pcall.enc)

C13_Start ==
  LET p == FirstNotIn(pcall.T, 1, {9, 10, 13, 32})
  IN (p > Len(pcall.T) \/ pcall.T[p] \notin {91, 123})
       => ErrorAt("Expected '{' or '['", p)

C13_Trailing ==
  LET p == FirstNotIn(pcall.T, 3, {9, 10, 13, 32, 0})
  IN (Len(pcall.T) >= 2 /\ SubSeq(pcall.T, 1, 2) \in {<<91, 93>>, <<123, 125>>}
      /\ p <= Len(pcall.T))
       => ErrorAt("Expected end of document", p)

\* C13: parse fails with "Expected '{' or '['" at the first code unit that is
\* not whitespace (at the end of the input when there is none) unless that
\* unit opens a container, and behind a closed root the first unit that is
\* neither whitespace nor zero fails the parse with "Expected end of
\* document" at that unit.
C13_StartAndTrailingErrors ==
  (pcall.n >= 1 /\ pcall.heap = NoLimit /\ PlainText)
    => C13_Start /\ C13_Trailing

\* ---- the number grammar -?(0|[1-9][0-9]*)(\.[0-9]+)?([eE][+-]?[0-9]+)?
IsDigit(u) == u \in 48..57
AllDigits(t, i, j) == \A k \in i..j : IsDigit(t[k])
IntAt(t, i, j) == i <= j /\ AllDigits(t, i, j) /\ (t[i] = 48 => i = j)
FracAt(t, i, j) == i > j \/ (t[i] = 46 /\ i + 1 <= j /\ AllDigits(t, i + 1, j))
ExpAt(t, i, j) ==
  i > j \/ (/\ t[i] \in {101, 69}
            /\ LET k == IF i + 1 <= j /\ t[i + 1] \in {43, 45} THEN i + 2 ELSE i + 1
               IN k <= j /\ AllDigits(t, k, j))
IsNumber(t) ==
  LET s == IF t # << >> /\ t[1] = 45 THEN 2 ELSE 1
  IN \E a \in s..Len(t) :
       \E b \in a..Len(t) :
         IntAt(t, s, a) /\ FracAt(t, a + 1, b) /\ ExpAt(t, b + 1, Len(t))

HasNo(t, set) == \A i \in 1..Len(t) : t[i] \notin set

\* After the first p units of t the grammar demands a digit of the kind
\* what, and t does not have one there.
NeedsDigit(t, p, what) ==
  LET pre == SubSeq(t, 1, p)
      core(k) == SubSeq(t, 1, p - k)
  IN /\ p = Len(t) \/ ~IsDigit(t[p + 1])
     /\ \/ what = "Expected digit" /\ pre \in {<< >>, <<45>>}
        \/ /\ what = "Expected fractional digits"
           /\ p >= 2 /\ t[p] = 46
           /\ IsNumber(core(1)) /\ HasNo(core(1), {46, 101, 69})
        \/ /\ what = "Expected exponent digits"
           /\ \/ p >= 2 /\ t[p] \in {101, 69}
                 /\ IsNumber(core(1)) /\ HasNo(core(1), {101, 69})
              \/ p >= 3 /\ t[p] \in {43, 45} /\ t[p - 1] \in {101, 69}
                 /\ IsNumber(core(2)) /\ HasNo(core(2), {101, 69})

DigitErrors ==
  {"Expected digit", "Expected fractional digits", "Expected exponent digits"}

LongestNumberPrefix(t) ==
  IF \E k \in 1..Len(t) : IsNumber(SubSeq(t, 1, k))
    THEN CHOOSE k \in 1..Len(t) :
           /\ IsNumber(SubSeq(t, 1, k))
           /\ \A j \in (k + 1)..Len(t) : ~IsNumber(SubSeq(t, 1, j))
    ELSE 0

\* The last call parsed an array of one element over the number alphabet.
Element == SubSeq(pcall.T, 2, Len(pcall.T) - 1)
NumberCall ==
  /\ pcall.n >= 1
  /\ pcall.heap = NoLimit
  /\ Len(pcall.T) >= 3
  /\ pcall.T[1] = 91
  /\ pcall.T[Len(pcall.T)] = 93
  /\ \A i \in 2..(Len(pcall.T) - 1) :
       pcall.T[i] \in NumAlphabet \cup 48..57

OneNumber(t) ==
  [kind |-> "value_array", name |-> << >>, text |-> << >>,
   kids |-> <<[kind |-> "value_number", name |-> << >>, text |-> t,
               kids |-> << >>]>>]

\* The outcome of a number text t that the grammar accepts, or fails as the
\* claim lists.
NumberOutcome(t) ==
  IF IsNumber(t) THEN pcall.what = "" /\ root_ = OneNumber(t)
  ELSE \/ \E p \in 0..Len(t), what \in DigitErrors :
            NeedsDigit(t, p, what) /\ ErrorAt(what, p + 2)
       \/ /\ LongestNumberPrefix(t) >= 1
          /\ ErrorAt("Expected value-separator ',' or end-of-array ']'",
                     LongestNumberPrefix(t) + 2)

\* C14 as stated: an element text over - + . e E 0..9 is accepted as one
\* number exactly when it matches the grammar, and otherwise fails with a
\* digit error where the digit was required or with a value-separator error
\* behind the longest valid number prefix.
C14_NumberGrammarAsStated == NumberCall => NumberOutcome(Element)

\* C14: as above, except that an element text starting with '+', 'e' or 'E'
\* fails with "Expected value" located at its first code unit.
C14_NumberGrammar ==
  NumberCall =>
    IF Element[1] \in {43, 101, 69} THEN ErrorAt("Expected value", 2)
    ELSE NumberOutcome(Element)

C14_Witness ==
  /\ NumberCall
  /\ Element = <<48, 49>>
  /\ ErrorAt("Expected value-separator ',' or end-of-array ']'", 3)

\* ---- trailing commas
Whitespace == {9, 10, 13, 32}

\* The last position before i whose unit is not whitespace, or 0.
LastNotWsBefore(T, i) ==
  IF \E j \in 1..(i - 1) : T[j] \notin Whitespace
    THEN CHOOSE j \in 1..(i - 1) :
           T[j] \notin Whitespace /\ \A k \in (j + 1)..(i - 1) : T[k] \in Whitespace
    ELSE 0

\* The unit at i is a comma with a closing bracket behind it.
CommaBeforeCloser(T, i) ==
  /\ T[i] = 44
  /\ FirstNotIn(T, i + 1, Whitespace) <= Len(T)
  /\ T[FirstNotIn(T, i + 1, Whitespace)] \in {93, 125}

\* The comma at i follows a member and not an opening bracket or a comma.
AfterMember(T, i) ==
  /\ LastNotWsBefore(T, i) > 0
  /\ T[LastNotWsBefore(T, i)] \notin {91, 123, 44}

WithoutUnit(T, i) == SubSeq(T, 1, i - 1) \o SubSeq(T, i + 1, Len(T))

\* The tree of the last call's arguments with the text T instead.
TreeOf(T) ==
  LET n == Len(Encode(pcall.enc, T))
      s == parse_document(Encode(pcall.enc, T \o pcall.tail), n, pcall.enc,
                          pcall.wo, pcall.flags, pcall.heap)
  IN IF s.what = "" THEN Resolve(Cfg(pcall.enc, pcall.wo, pcall.flags, n), s, s.root)
     ELSE EmptyRoot

Rejected == pcall.what \notin {"", "fault", "hang"}

LineEnd(T, i) == FirstNotIn(T, i, (0..127) \ {10})

\* A block comment opens at i and is closed at or after k.
ClosedFrom(T, k) == \E j \in k..(Len(T) - 1) : T[j] = 42 /\ T[j + 1] = 47
BlockEnd(T, k) ==
  CHOOSE j \in k..(Len(T) - 1) :
    /\ T[j] = 42 /\ T[j + 1] = 47
    /\ \A m \in k..(j - 1) : ~(T[m] = 42 /\ T[m + 1] = 47)

\* The units of T from i on with every comment outside a string replaced by
\* a space.
RECURSIVE StripComments(_, _, _)
StripComments(T, i, instr) ==
  IF i > Len(T) THEN << >>
  ELSE IF instr
    THEN IF T[i] = 92 /\ i < Len(T)
           THEN <<T[i], T[i + 1]>> \o StripComments(T, i + 2, TRUE)
           ELSE <<T[i]>> \o StripComments(T, i + 1, T[i] # 34)
  ELSE IF T[i] = 34 THEN <<34>> \o StripComments(T, i + 1, TRUE)
  ELSE IF T[i] = 35 \/ (T[i] = 47 /\ i < Len(T) /\ T[i + 1] = 47)
    THEN <<32>> \o StripComments(T, LineEnd(T, i), FALSE)
  ELSE IF T[i] = 47 /\ i < Len(T) /\ T[i + 1] = 42 /\ ClosedFrom(T, i + 2)
    THEN <<32>> \o StripComments(T, BlockEnd(T, i + 2) + 2, FALSE)
  ELSE <<T[i]>> \o StripComments(T, i + 1, FALSE)

\* The position i of T lies outside every string.
OutsideString(T, i) ==
  Cardinality({j \in 1..(i - 1) : T[j] = 34 /\ (j = 1 \/ T[j - 1] # 92)}) % 2 = 0

CommentStarts(T) == {i \in 1..Len(T) : T[i] \in {35, 47} /\ OutsideString(T, i)}

\* The outcome of the last call's arguments with the text T and the flags fl
\* instead.
RunWith(T, fl) ==
  LET n == Len(Encode(pcall.enc, T))
      s == parse_document(Encode(pcall.enc, T \o pcall.tail), n, pcall.enc,
                          pcall.wo, fl, pcall.heap)
  IN [what |-> s.what,
      tree |-> IF s.what = "" THEN Resolve(Cfg(pcall.enc, pcall.wo, fl, n), s, s.root)
               ELSE EmptyRoot]

AsciiText == \A i \in 1..Len(pcall.T) : pcall.T[i] < 128

\* C16: with parse_comments the parse succeeds exactly when the text with
\* its comments removed parses, wherever the comments stand, and gives the
\* same tree; without parse_comments the first '#' or '/' outside a string
\* fails the parse at that code unit.
C16_CommentsAreWhitespace ==
  (pcall.n >= 1 /\ pcall.heap = NoLimit /\ AsciiText) =>
    IF parse_comments \in pcall.flags
      THEN LET r == RunWith(StripComments(pcall.T, 1, FALSE),
                            pcall.flags \ {parse_comments})
           IN /\ (pcall.what = "") = (r.what = "")
              /\ pcall.what = "" => root_ = r.tree
      ELSE CommentStarts(pcall.T) # {} =>
             /\ Rejected
             /\ pcall.reg = "buffer"
             /\ \E p \in CommentStarts(pcall.T) :
                  /\ \A q \in CommentStarts(pcall.T) : p <= q
                  /\ pcall.off = (p - 1) * encoding_sizes(pcall.enc)

\* ---- surrogate escapes
\* The code point of the surrogate pair h, l, and its code units in a
\* document of wo bytes per unit (UTF-8, UTF-16, UTF-32).
PairCodePoint(h, l) == \h10000 + (h - \hd800) * \h400 + (l - \hdc00)
CodeUnitsOf(wo, cp, h, l) ==
  IF wo = 1
    THEN <<\hf0 + (cp \div \h40000), \h80 + ((cp \div \h1000) % 64),
           \h80 + ((cp \div 64) % 64), \h80 + (cp % 64)>>
  ELSE IF wo = 2 THEN <<h, l>>
  ELSE <<cp>>

\* C17: the escape pair \uHHHH\uLLLL of a high surrogate H and a low
\* surrogate L in a string decodes to the one code point
\* 0x10000 + ((H - 0xD800) << 10) + (L - 0xDC00), stored in the code units of
\* the document's width.
C17_SurrogatePairDecodes ==
  \A h \in Highs, l \in Lows :
    (pcall.n >= 1 /\ pcall.heap = NoLimit
     /\ pcall.T = StringArray(Esc(h) \o Esc(l)))
      => /\ pcall.what = ""
         /\ Len(root_.kids) = 1
         /\ root_.kids[1].text = CodeUnitsOf(pcall.wo, PairCodePoint(h, l), h, l)

\* A \uXXXX escape stands at position i of T, and its value.
HexOf(u) ==
  IF u \in 48..57 THEN u - 48
  ELSE IF u \in 97..102 THEN u - 87
  ELSE IF u \in 65..70 THEN u - 55
  ELSE 0 - 1
EscapeAt(T, i) ==
  /\ i >= 1
  /\ i + 5 <= Len(T)
  /\ T[i] = 92
  /\ T[i + 1] = 117
  /\ \A k \in 2..5 : HexOf(T[i + k]) >= 0
EscapeValue(T, i) ==
  HexOf(T[i + 2]) * 4096 + HexOf(T[i + 3]) * 256 + HexOf(T[i + 4]) * 16
    + HexOf(T[i + 5])
HighAt(T, i) == EscapeAt(T, i) /\ EscapeValue(T, i) \in \hd800..\hdbff
LowAt(T, i) == EscapeAt(T, i) /\ EscapeValue(T, i) \in \hdc00..\hdfff

\* T has a high surrogate escape with no low surrogate escape right behind
\* it, or a low surrogate escape with no high surrogate escape right before.
HasLoneSurrogate(T) ==
  \E i \in 1..Len(T) :
    \/ HighAt(T, i) /\ ~LowAt(T, i + 6)
    \/ LowAt(T, i) /\ ~HighAt(T, i - 6)

SurrogateErrors ==
  {"Expected UTF-16 surrogate pair", "Invalid UTF-16 surrogate pair",
   "Invalid UTF-16 character", "Expected \\uXXXX"}

\* C18: a text with a lone or mismatched surrogate escape fails to parse
\* with a surrogate error, in a document of any code-unit width.
C18_LoneSurrogateRejected ==
  (pcall.n >= 1 /\ pcall.heap = NoLimit /\ AsciiText
   /\ HasLoneSurrogate(pcall.T))
    => pcall.what \in SurrogateErrors

\* ---- error locations
LoneHighInArray == <<91, 32, 34, 92, 117, 100, 56, 48, 48, 34, 32, 93>>

\* C19: every error handed to the error handler has a location inside the
\* caller's buffer, at a byte offset from 0 to the byte count, whatever the
\* kind of the error (a failed allocation and an error of transcoding a \u
\* escape included); for [ "\ud800" ] it is a surrogate error at the
\* backslash, code unit 3.
C19_ErrorLocationInBuffer ==
  (pcall.n >= 1 /\ Rejected) =>
    /\ pcall.reg = "buffer"
    /\ pcall.off >= 0
    /\ pcall.off <= pcall.num_bytes
    /\ (pcall.T = LoneHighInArray /\ pcall.heap = NoLimit) =>
         /\ pcall.what \in SurrogateErrors
         /\ pcall.off = 3 * encoding_sizes(pcall.enc)

\* ---- the root over several calls of parse

\* C20: parse resets the root before it consumes input: after a later call
\* that fails, root() is an empty object or what that call built, never the
\* tree of the earlier call; after one that succeeds, root() is the tree of
\* the new input.
C20_RootResetBeforeParse ==
  (pcall.n >= 2 /\ Returned) =>
    IF pcall.what = ""
      THEN root_ = TreeOf(pcall.T)
      ELSE \/ root_ = EmptyRoot
           \/ pcall.rootset /\ root_ # pcall.prev

\* ======================================================================
\* memory_pool<T_ALLOC, static_size, dynamic_size>.  Addresses are numbers, 0
\* is the null pointer.  The static area static_pool_ lies at StaticBase; the
\* heap hands out every block at an address of its own, so that a pointer
\* into a released block stays recognisable.  The build is the release build:
\* the asserts are compiled out.
FASTJSON_ALIGNMENT == 8

\* sizeof(header): the one pointer next_pool_.
HeaderSize == FASTJSON_ALIGNMENT

\* std::size_t has PtrBits bits.
PtrBits == 16
size_t(x) == x % (2 ^ PtrBits)

MaxAllocs == 4
StaticBase == 2 * FASTJSON_ALIGNMENT
HeapBase == 16 * FASTJSON_ALIGNMENT
HeapStride == 16 * FASTJSON_ALIGNMENT

\* The template arguments, the requests, and where in its stride T_ALLOC
\* places a block (operator new[] aligns it, another allocator need not).
StaticSizes == {0, 12, 16}
DynamicSizes == {0, 16}
Requests == {1, 8, 12, 20}
HeapOffsets == {0, 4}

\* static_pool<static_size>::static_pool_start / static_pool_end, and the
\* specialisation static_pool<0>, which returns null for both.
static_pool_start(ss) == IF ss = 0 THEN 0 ELSE StaticBase
static_pool_end(ss) == IF ss = 0 THEN 0 ELSE StaticBase + ss

\* align_forward without the rounding.
align_forward_none(data) == data

\* (byte*)((size_t)(data + (FASTJSON_ALIGNMENT - 1)) & ~(FASTJSON_ALIGNMENT - 1))
align_forward(data) ==
  size_t(data + (FASTJSON_ALIGNMENT - 1))
    - (size_t(data + (FASTJSON_ALIGNMENT - 1)) % FASTJSON_ALIGNMENT)

\* init(), called by the constructor.
memory_pool_init(ss) ==
  [pool_ |-> static_pool_start(ss),
   next_ |-> align_forward(static_pool_start(ss)),
   end_ |-> static_pool_end(ss)]

\* T_ALLOC::raw_heap_alloc(size): null, or a block of its own at offset off
\* of the next stride.
raw_heap_alloc(bl, size, ok, off) ==
  IF ok THEN HeapBase + Len(bl) * HeapStride + off ELSE 0

\* pool_alloc(minsize): the size asked of the heap.
pool_alloc_size(ds, minsize) ==
  size_t((IF ds < minsize THEN minsize ELSE ds)
         + (FASTJSON_ALIGNMENT * 2) + HeaderSize)

\* pool_alloc(minsize) with the block the heap returned: the header at
\* align_forward(pool) links to the old pool_.
pool_alloc(p, base, size) ==
  [pool_ |-> base,
   next_ |-> align_forward(align_forward(base) + HeaderSize),
   end_ |-> base + size]

\* alloc(size) on the members p: the pointer returned and the members left.
\* asked says that pool_alloc was called.
bump(p, size, asked) ==
  [ret |-> p.next_, asked |-> asked,
   p |-> [p EXCEPT !.next_ = align_forward(p.next_ + size)]]

memory_pool_alloc(p, ds, bl, size, ok, off) ==
  IF size > size_t(p.end_ - p.next_)
    THEN IF raw_heap_alloc(bl, pool_alloc_size(ds, size), ok, off) = 0
           THEN [ret |-> 0, asked |-> TRUE, p |-> p]
           ELSE bump(pool_alloc(p, raw_heap_alloc(bl, pool_alloc_size(ds, size), ok, off),
                                pool_alloc_size(ds, size)),
                     size, TRUE)
    ELSE bump(p, size, FALSE)

\* The block whose base is the pointer q.
BlockAt(bl, q) == CHOOSE i \in 1..Len(bl) : bl[i].base = q

\* clear(): while (pool_ != static_pool_start()) { next = header->next_pool_;
\* raw_heap_free(pool_); pool_ = next; }.  It yields the blocks with their
\* frees counted; pool_ ends at static_pool_start().
RECURSIVE memory_pool_clear(_, _, _)
memory_pool_clear(q, ss, bl) ==
  IF q = static_pool_start(ss) THEN bl
  ELSE memory_pool_clear(bl[BlockAt(bl, q)].link, ss,
                         [bl EXCEPT ![BlockAt(bl, q)].frees = @ + 1])

\* What a call of alloc leaves behind.
Allocated(size, ok, r) ==
  /\ pool' = r.p
  /\ blocks' = IF r.asked /\ r.ret # 0
                 THEN Append(blocks, [base |-> r.p.pool_,
                                      size |-> r.p.end_ - r.p.pool_,
                                      link |-> pool.pool_, frees |-> 0])
                 ELSE blocks
  /\ regions' = IF r.ret # 0
                  THEN Append(regions, [ptr |-> r.ret, size |-> size])
                  ELSE regions
  /\ mcall' = [op |-> "alloc", size |-> size, ret |-> r.ret,
               asked |-> r.asked, ok |-> ok, before |-> pool,
               nblocks |-> Len(blocks),
               frees |-> [i \in 1..Len(blocks) |-> blocks[i].frees]]
  /\ UNCHANGED <<static_size, dynamic_size, vars, pvars, prn>>

PoolAlloc ==
  /\ Len(regions) < MaxAllocs
  /\ \E size \in Requests, ok \in BOOLEAN, off \in HeapOffsets :
       Allocated(size, ok,
                 memory_pool_alloc(pool, dynamic_size, blocks, size, ok, off))

PoolClear ==
  /\ pool' = [pool EXCEPT !.pool_ = static_pool_start(static_size)]
  /\ blocks' = memory_pool_clear(pool.pool_, static_size, blocks)
  /\ mcall' = [op |-> "clear", size |-> 0, ret |-> 0, asked |-> FALSE,
               ok |-> TRUE, before |-> pool, nblocks |-> Len(blocks),
               frees |-> [i \in 1..Len(blocks) |-> blocks[i].frees]]
  /\ UNCHANGED <<static_size, dynamic_size, regions, vars, pvars, prn>>

\* A pool fresh from its constructor, for each pair of template arguments.
PoolInit ==
  /\ static_size \in StaticSizes
  /\ dynamic_size \in DynamicSizes
  /\ pool = memory_pool_init(static_size)
  /\ blocks = << >>
  /\ regions = << >>
  /\ mcall = NoPoolCall
  /\ owner = InitHeap.owner
  /\ prev = InitHeap.prev
  /\ next = InitHeap.next
  /\ name = InitHeap.name
  /\ child = InitHeap.child
  /\ lastchild = InitHeap.lastchild
  /\ numchildren = InitHeap.numchildren
  /\ call = NoCall
  /\ ncalls = 0
  /\ mem = << >>
  /\ root_ = EmptyRoot
  /\ pcall = NoParse
  /\ prn = NoPrint

PoolNext ==
  \/ PoolAlloc
  \/ PoolClear

PoolSpec == PoolInit /\ [][PoolNext]_<<vars, pvars, mvars, prn>>

\* ------------------------------------------- properties of the memory pool
\* The bytes really left in the current block.
Room(p) == IF p.next_ <= p.end_ THEN p.end_ - p.next_ ELSE 0

Released(q) ==
  \E i \in 1..Len(blocks) :
    /\ blocks[i].frees > 0
    /\ q >= blocks[i].base
    /\ q < blocks[i].base + blocks[i].size

\* C22: clear() frees every dynamic block exactly once, a second clear()
\* frees nothing, and no later alloc returns memory inside a released block.
C22_ClearReleases ==
  /\ \A i \in 1..Len(blocks) : blocks[i].frees <= 1
  /\ mcall.op = "clear" => \A i \in 1..Len(blocks) : blocks[i].frees = 1
  /\ (mcall.op = "alloc" /\ mcall.ret # 0) => ~Released(mcall.ret)

\* The region r lies inside the static area or inside one heap block.
InArea(r) ==
  \/ /\ r.ptr >= static_pool_start(static_size)
     /\ r.ptr + r.size <= static_pool_end(static_size)
  \/ \E i \in 1..Len(blocks) :
       /\ r.ptr >= blocks[i].base
       /\ r.ptr + r.size <= blocks[i].base + blocks[i].size

Disjoint(r1, r2) == r1.ptr + r1.size <= r2.ptr \/ r2.ptr + r2.size <= r1.ptr

\* C27: after every alloc next_ <= end_, every region returned lies inside
\* the static area or inside one heap block, and no two of them overlap.
C27_CursorWithinBlock ==
  mcall.op = "alloc" =>
    /\ pool.next_ <= pool.end_
    /\ \A i \in 1..Len(regions) : InArea(regions[i])
    /\ \A i, j \in 1..Len(regions) :
         i < j => Disjoint(regions[i], regions[j])

\* ------------------------------------------------ object_set and at(name)
\* One step of the program as C26 describes it: the object was built by
\* object_set calls alone.
C26_Step ==
  LET self == call'.self
      v == call'.val
      nm == call'.name
  IN (/\ call'.op = "object_set"
      /\ call.op \in {"none", "object_set"}
      /\ call'.status = "returned"
      /\ call'.ok = TRUE)
     => /\ at_name(Heap', self, nm).ret = v
        /\ \A q \in Names \ {nm} :
             at_name(Heap, self, q).ret # NullVal
               => at_name(Heap', self, q).ret # NullVal

\* C26: after object_set(name, v) has returned true at(name) returns v, and
\* every other name that at() found before the call it finds after it.
C26_ObjectSetThenAt == [][C26_Step]_vars

\* ======================================================================
\* fastjson_print.hpp.  The output iterator is a sink that appends every code
\* unit written through any copy of it (std::ostream_iterator, the tests'
\* dummy_iter); what print has written is a sequence of code units.  A
\* document is printed from a tree of [kind, name, text, kids] as root()
\* shows it.  A print call yields [out, hang]: hang says that a loop of the
\* printer never ends, out is what was written up to there.
no_whitespace == 16
use_spaces == 32
indent_4_spaces == 4
skip_name == 65536

\* (flags & f) != 0 for a one-bit f, and flags & ~f.
Has(flags, f) == (flags \div f) % 2 = 1
Without(flags, f) == IF Has(flags, f) THEN flags - f ELSE flags

Done(u) == [out |-> u, hang |-> FALSE]
Then(a, b) ==
  IF a.hang THEN a ELSE [out |-> a.out \o b.out, hang |-> b.hang]

\* lookup_tables::lookup_hexchar
lookup_hexchar ==
  <<48, 49, 50, 51, 52, 53, 54, 55, 56, 57, 97, 98, 99, 100, 101, 102>>

\* copy_chars that writes nothing.
copy_chars_none(u) == << >>

\* internal::copy_chars
copy_chars(u) == u

\* internal::emit_indent
emit_indent(flags, indent) ==
  IF Has(flags, no_whitespace) THEN << >>
  ELSE IF Has(flags, use_spaces)
  THEN [i \in 1..(indent * (IF flags % 16 = 0 THEN indent_4_spaces
                            ELSE flags % 16)) |-> 32]
  ELSE [i \in 1..indent |-> 9]

\* internal::emit_utf16
emit_utf16(c) ==
  <<92, 117,
    lookup_hexchar[((c \div 4096) % 16) + 1],
    lookup_hexchar[((c \div 256) % 16) + 1],
    lookup_hexchar[((c \div 16) % 16) + 1],
    lookup_hexchar[(c % 16) + 1]>>

\* to_utf16<Ch, 1>::lengths, indexed by the leading byte >> 2.
to_utf16_lengths(i) ==
  IF i < 32 THEN 1
  ELSE IF i < 48 THEN 0
  ELSE IF i < 56 THEN 2
  ELSE IF i < 60 THEN 3
  ELSE IF i < 62 THEN 4
  ELSE 0

\* The converters yield what they write and by how many code units they
\* advance begin.  u[i] is *begin; behind the last code unit of a string
\* lies its terminator.
to_utf16_1(u, i) ==
  LET p(k) == IF i + k <= Len(u) THEN u[i + k] ELSE 0
      len == to_utf16_lengths(p(0) \div 4)
      s == (p(0) % 8) * 262144 + (p(1) % 64) * 4096 + (p(2) % 64) * 64
             + (p(3) % 64)
  IN IF len = 1 THEN [out |-> emit_utf16(p(0)), n |-> 1]
     ELSE IF len = 2
     THEN [out |-> emit_utf16((p(0) % 32) * 64 + (p(1) % 64)), n |-> 2]
     ELSE IF len = 3
     THEN [out |-> emit_utf16((p(0) % 16) * 4096 + (p(1) % 64) * 64
                               + (p(2) % 64)),
           n |-> 3]
     ELSE IF len = 4
     THEN [out |-> emit_utf16(BitOr(55296, ((s - 65536) % (2 ^ 26)) \div 1024))
                     \o emit_utf16(56320 + ((s - 65536) % 1024)),
           n |-> 4]
     ELSE [out |-> << >>, n |-> 0]

to_utf16_2(u, i) ==
  IF u[i] >= 55296 /\ u[i] <= 57343
  THEN [out |-> emit_utf16(u[i])
                  \o emit_utf16(IF i + 1 <= Len(u) THEN u[i + 1] ELSE 0),
        n |-> 2]
  ELSE [out |-> emit_utf16(u[i]), n |-> 0]

to_utf16_4(u, i) ==
  IF u[i] < 65536 THEN [out |-> emit_utf16(u[i]), n |-> 1]
  ELSE [out |-> emit_utf16(BitOr(55296, (u[i] - 65536) \div 1024))
                  \o emit_utf16(56320 + ((u[i] - 65536) % 1024)),
        n |-> 1]

to_utf16(wo, u, i) ==
  IF wo = 1 THEN to_utf16_1(u, i)
  ELSE IF wo = 2 THEN to_utf16_2(u, i)
  ELSE to_utf16_4(u, i)

\* One turn of emit_string's loop: switch (*begin).
emit_char(wo, u, i) ==
  IF u[i] \in {92, 34} THEN [out |-> <<92, u[i]>>, n |-> 1]
  ELSE IF u[i] = 8 THEN [out |-> <<92, 98>>, n |-> 1]
  ELSE IF u[i] = 12 THEN [out |-> <<92, 102>>, n |-> 1]
  ELSE IF u[i] = 13 THEN [out |-> <<92, 114>>, n |-> 1]
  ELSE IF u[i] = 10 THEN [out |-> <<92, 110>>, n |-> 1]
  ELSE IF u[i] = 9 THEN [out |-> <<92, 116>>, n |-> 1]
  ELSE IF u[i] < 32 THEN [out |-> emit_utf16(u[i]), n |-> 1]
  ELSE IF u[i] > 127 THEN to_utf16(wo, u, i)
  ELSE [out |-> <<u[i]>>, n |-> 1]

\* while (begin < end) { ... }: a turn that does not advance begin is taken
\* again for ever.
RECURSIVE emit_string_loop(_, _, _)
emit_string_next(wo, u, i, step) ==
  IF step.n = 0 THEN [out |-> step.out, hang |-> TRUE]
  ELSE Then(Done(step.out), emit_string_loop(wo, u, i + step.n))

emit_string_loop(wo, u, i) ==
  IF i > Len(u) THEN Done(<<34>>)
  ELSE emit_string_next(wo, u, i, emit_char(wo, u, i))

\* internal::emit_string
emit_string(wo, u) == Then(Done(<<34>>), emit_string_loop(wo, u, 1))

\* print_value: the name, unless it is empty or skipped.
print_name(wo, val, flags) ==
  IF val.name # << >> /\ ~Has(flags, skip_name)
  THEN Then(emit_string(wo, val.name),
            Done(<<58>> \o (IF Has(flags, no_whitespace) THEN << >> ELSE <<32>>)))
  ELSE Done(<< >>)

\* print_value: what is written before a child.
print_separator(first, array, flags) ==
  (IF first THEN << >>
   ELSE <<44>> \o (IF array /\ ~Has(flags, no_whitespace) THEN <<32>> ELSE << >>))
  \o (IF ~array /\ ~Has(flags, no_whitespace) THEN <<10>> ELSE << >>)

\* print_value: what is written behind the last child.
print_close(kids, array, flags, indent) ==
  (IF kids # << >> /\ ~array /\ ~Has(flags, no_whitespace)
   THEN <<10>> \o emit_indent(flags, indent) ELSE << >>)
  \o (IF array THEN <<93>> ELSE <<125>>)

\* internal::print_value
RECURSIVE print_value(_, _, _, _)
RECURSIVE print_children(_, _, _, _, _, _)
print_children(wo, kids, i, array, flags, indent) ==
  IF i > Len(kids) THEN Done(print_close(kids, array, flags, indent))
  ELSE Then(Then(Done(print_separator(i = 1, array, flags)),
                 print_value(wo, kids[i], flags,
                             IF array THEN 0 ELSE indent + 1)),
            print_children(wo, kids, i + 1, array, flags, indent))

print_body(wo, val, flags, indent) ==
  IF val.kind \in {"value_null", "value_bool", "value_number"}
  THEN Done(copy_chars(val.text))
  ELSE IF val.kind = "value_string" THEN emit_string(wo, val.text)
  ELSE Then(Done(IF val.kind = "value_array" THEN <<91>> ELSE <<123>>),
            print_children(wo, val.kids, 1, val.kind = "value_array",
                           flags, indent))

print_value(wo, val, flags, indent) ==
  Then(Then(Done(emit_indent(flags, indent)), print_name(wo, val, flags)),
       print_body(wo, val, Without(flags, skip_name), indent))

\* print(out, doc, flags)
print(wo, doc, flags) == print_value(wo, doc, flags, 0)

\* print(out, value, flags) for a json_object
print_object(wo, value, flags) == print_value(wo, value, flags + skip_name, 0)

\* ---- printing as a state machine: a document is parsed from a text or
\* built with the factory functions, printed, and the printed text is parsed
\* by a second document of the same width.
PrintTexts ==
  {
   <<91, 93>>,
     \* []
   <<123, 125>>,
     \* {}
   <<91, 49, 44, 50, 93>>,
     \* [1,2]
   <<91, 91, 93, 44, 123, 125, 93>>,
     \* [[],{}]
   <<123, 34, 34, 58, 49, 125>>,
     \* {"":1}
   <<123, 34, 97, 34, 58, 49, 44, 34, 97, 34, 58, 50, 125>>,
     \* {"a":1,"a":2}
   <<123, 34, 97, 34, 58, 91, 116, 114, 117, 101, 44, 102, 97, 108, 115, 101, 44, 110, 117, 108, 108, 93, 125>>,
     \* {"a":[true,false,null]}
   <<91, 34, 97, 92, 110, 98, 34, 93>>,
     \* ["a\nb"]
   <<91, 34, 92, 34, 92, 92, 92, 47, 34, 93>>,
     \* ["\"\\\/"]
   <<91, 34, 92, 117, 48, 48, 48, 49, 92, 98, 92, 102, 92, 114, 92, 116, 34, 93>>,
     \* ["\u0001\b\f\r\t"]
   <<91, 32, 49, 32, 44, 32, 34, 97, 34, 32, 93>>,
     \* [ 1 , "a" ]
   <<91, 34, 233, 34, 93>>,
     \* ["U+00E9"]
   <<91, 34, 8364, 34, 93>>,
     \* ["U+20AC"]
   <<91, 34, 119070, 34, 93>>,
     \* ["U+1D11E"]
   <<123, 34, 233, 34, 58, 34, 120, 34, 125>>,
     \* {"U+00E9":"x"}
   <<91, 45, 48, 46, 53, 101, 50, 93>>,
     \* [-0.5e2]
   <<91, 49, 69, 43, 50, 93>>,
     \* [1E+2]
   <<91, 48, 46, 49, 48, 93>>,
     \* [0.10]
   <<91, 45, 48, 93>>,
     \* [-0]
   <<123, 34, 97, 34, 58, 49, 44, 34, 98, 34, 58, 91, 116, 114, 117, 101, 44, 102, 97, 108, 115, 101, 44, 110, 117, 108, 108, 93, 44, 34, 99, 34, 58, 123, 34, 100, 34, 58, 45, 48, 46, 53, 101, 50, 125, 125>>
     \* {"a":1,"b":[true,false,null],"c":{"d":-0.5e2}}
  }

\* The strings handed to allocate_string_value: NUL-terminated code units of
\* the document's width, a continuation byte among them.
BuiltStrings(wo) ==
  IF wo = 1 THEN {<<97>>, <<128>>, <<195, 169>>, <<97, 191, 98>>}
  ELSE {<<97>>, <<233>>, <<55348, 56606>>}

PrintFlags == {0, no_whitespace, use_spaces + 2, no_whitespace + use_spaces}

PrintParse ==
  /\ pcall.n = 0
  /\ prn.st = "none"
  /\ \E T \in PrintTexts :
       Call(Input(T, NativeEnc(pcall.wo), parse_default, <<0, 0>>, NoLimit))

\* allocate_array / allocate_object, allocate_string_value, array_add /
\* object_set on the fresh value, and the new container taken as the
\* document to print.
PrintBuild ==
  /\ pcall.n = 0
  /\ prn.st = "none"
  /\ \E str \in BuiltStrings(pcall.wo), nm \in {<< >>, <<97>>} :
       root_' = [kind |-> IF nm = << >> THEN "value_array" ELSE "value_object",
                 name |-> << >>, text |-> << >>,
                 kids |-> <<[kind |-> "value_string", name |-> nm,
                             text |-> str, kids |-> << >>]>>]
  /\ prn' = [prn EXCEPT !.st = "built"]
  /\ UNCHANGED <<vars, mvars, mem, pcall>>

PrintDocument ==
  /\ \/ prn.st = "built"
     \/ prn.st = "none" /\ pcall.n = 1 /\ pcall.what = ""
  /\ \E flags \in PrintFlags :
       prn' = [st |-> "printed", built |-> prn.st = "built", flags |-> flags,
               out |-> print(pcall.wo, root_, flags).out,
               hang |-> print(pcall.wo, root_, flags).hang,
               what |-> "", root |-> EmptyRoot]
  /\ UNCHANGED <<vars, mvars, pvars>>

\* What the second document shows after parsing the printed text.
Reparsed(n, s) ==
  /\ prn' = [prn EXCEPT
               !.st = "reparsed", !.what = s.what,
               !.root = IF s.rootset
                          THEN Resolve(Cfg(NativeEnc(pcall.wo), pcall.wo,
                                           parse_default, n), s, s.root)
                          ELSE EmptyRoot]
  /\ UNCHANGED <<vars, mvars, pvars>>

Reparse ==
  /\ prn.st = "printed"
  /\ ~prn.hang
  /\ Reparsed(Len(Encode(NativeEnc(pcall.wo), prn.out)),
              parse_document(Encode(NativeEnc(pcall.wo), prn.out \o <<0, 0>>),
                             Len(Encode(NativeEnc(pcall.wo), prn.out)),
                             NativeEnc(pcall.wo), pcall.wo, parse_default,
                             NoLimit))

PrintNext ==
  \/ PrintParse
  \/ PrintBuild
  \/ PrintDocument
  \/ Reparse

PrintSpec == ParseInit /\ [][PrintNext]_<<vars, pvars, mvars, prn>>

\* ------------------------------------------------ properties of the printer
Compact == Has(prn.flags, no_whitespace)

\* C23: a document parsed from a valid JSON text and printed with
\* no_whitespace yields a text (the printer returns) that a second parse
\* accepts, with a tree of the same kinds, names, texts and child order.
C23_RoundTrip ==
  (~prn.built /\ Compact) =>
    /\ prn.st = "printed" => ~prn.hang
    /\ prn.st = "reparsed" => prn.what = "" /\ prn.root = root_

ExampleText ==
  <<123, 34, 97, 34, 58, 49, 44, 34, 98, 34, 58, 91, 116, 114, 117, 101, 44, 102, 97, 108, 115, 101, 44, 110, 117, 108, 108, 93, 44, 34, 99, 34, 58, 123, 34, 100, 34, 58, 45, 48, 46, 53, 101, 50, 125, 125>>

ExampleCanonical ==
  <<123, 34, 97, 34, 58, 49, 44, 34, 98, 34, 58, 91, 116, 114, 117, 101, 44, 102, 97, 108, 115, 101, 44, 110, 117, 108, 108, 93, 44, 34, 99, 34, 58, 123, 34, 100, 34, 58, 45, 53, 48, 125, 125>>

NumberDocs == {T \in PrintTexts : 34 \notin Range(T) /\ 32 \notin Range(T)}
                \cup {ExampleText}

C30_PrintTerminates == prn.st = "printed" => ~prn.hang

\* ---- printing the documents the mutators leave
\* The scalars of the tree model are values of allocate_bool_value(true):
\* value_ = truestr, valueend_ = value_ + 4.  A null value has nullstr.
ScalarText(v) ==
  IF v \in Containers THEN << >>
  ELSE IF v = NullVal THEN SubSeq(nullstr, 1, 4)
  ELSE SubSeq(truestr, 1, 4)

\* print_value follows first_child() and next_sibling(): it never returns
\* from a child list whose next_ links lead back into the list, nor from a
\* container that lies within itself.
RECURSIVE Endless(_, _, _)
Endless(h, v, above) ==
  /\ v \in Containers
  /\ \/ v \in above
     \/ Fwd(h, v) # << >> /\ h.next[Fwd(h, v)[Len(Fwd(h, v))]] # NULL
     \/ \E i \in 1..Len(Fwd(h, v)) : Endless(h, Fwd(h, v)[i], above \cup {v})

\* The value v as print_value reads it.
RECURSIVE heap_tree(_, _)
heap_tree(h, v) ==
  [kind |-> TypeOf(v), name |-> h.name[v], text |-> ScalarText(v),
   kids |-> IF v \in Containers
              THEN [i \in 1..Len(Fwd(h, v)) |-> heap_tree(h, Fwd(h, v)[i])]
              ELSE << >>]

\* The text u parsed by a document over 8-bit code units.
ParsedBack(u) ==
  LET s == parse_document(Encode("utf8", u \o <<0, 0>>), Len(u), "utf8", 1,
                          parse_default, NoLimit)
  IN IF s.what = "" /\ s.rootset
     THEN Resolve(Cfg("utf8", 1, parse_default, Len(u)), s, s.root)
     ELSE NoNode

\* print(out, value, no_whitespace) on the tree t returns, and its text
\* parses to t.
PrintsBack(t) ==
  /\ ~print_object(1, t, no_whitespace).hang
  /\ ParsedBack(print_object(1, t, no_whitespace).out) = [t EXCEPT !.name = << >>]

\* The members of the object c carry names, as object_set requires.
Named(h, c) ==
  c \in Objects => \A i \in 1..Len(Fwd(h, c)) : h.name[Fwd(h, c)[i]] # << >>

\* C24: after any sequence of mutator calls, every container that is in no
\* other container prints (compactly) to a text that parses to an equivalent
\* document.
C24_BuiltRoundTrip ==
  call.status = "returned" =>
    \A c \in Containers :
      (owner[c] = NULL /\ Named(Heap, c)) =>
        /\ ~Endless(Heap, c, {})
        /\ PrintsBack(heap_tree(Heap, c))

\* ------------------------------------------------ translation in place

\* C28: when parse translates a string, a name or a number in place in the
\* caller's buffer, the position written never gets ahead of the position
\* read, whatever the widths of the input and of the document.
C28_WriteNeverAhead == pcall.n >= 1 => ~pcall.ahead

\* ------------------------------------------- the reads of a call of parse

\* std::size_t(-1), the num_bytes of NUL-terminated data.
npos == size_t(0 - 1)

\* PTRDIFF_MAX & -encSize, the distance from data to end for NUL-terminated
\* data.
far_end(enc) == ((2 ^ (PtrBits - 1)) - 1) - (((2 ^ (PtrBits - 1)) - 1) % encoding_sizes(enc))

\* json_document::determine_encoding: the encoding, or the error handed to
\* the handler; outside records a load of bytes at or behind num_bytes, fault
\* a load from behind the caller's memory.
determine_encoding(m, num_bytes) ==
  LET found(enc, outside) ==
        [enc |-> enc, what |-> "", outside |-> outside, fault |-> FALSE]
      failed(what, outside) ==
        [enc |-> "unknown", what |-> what, outside |-> outside, fault |-> FALSE]
      lost == [enc |-> "unknown", what |-> "", outside |-> TRUE, fault |-> TRUE]
      cutf32 ==
        IF ~InMem(m, 0, 4) THEN lost
        ELSE IF load(m, 0, 4) = 0
          THEN failed("Unable to determine encoding", num_bytes < 4)
        ELSE found(IF load(m, 0, 4) < 256 THEN "utf32" ELSE "utf32_swap",
                   num_bytes < 4)
      cutf16 ==
        IF load(m, 0, 2) = 0 THEN cutf32
        ELSE IF ~InMem(m, 2, 2) THEN lost
        ELSE IF load(m, 2, 2) = 0
          THEN [cutf32 EXCEPT !.outside = num_bytes < 4]
        ELSE found(IF load(m, 0, 2) < 256 THEN "utf16" ELSE "utf16_swap",
                   num_bytes < 4)
  IN IF num_bytes = npos
       THEN failed("Encoding must be specified with NUL-terminated data", FALSE)
     ELSE IF num_bytes % 4 \notin {0, 2} THEN found("utf8", FALSE)
     ELSE IF ~InMem(m, 0, 2) THEN lost
     ELSE IF m[1] # 0 /\ m[2] # 0 THEN found("utf8", FALSE)
     ELSE cutf16

\* The offset behind the first code unit zero of NUL-terminated data: the
\* end of the input.
RECURSIVE terminator(_, _, _)
terminator(enc, m, off) ==
  IF ~InMem(m, off, encoding_sizes(enc)) THEN Len(m)
  ELSE IF load(m, off, encoding_sizes(enc)) = 0 THEN off + encoding_sizes(enc)
  ELSE terminator(enc, m, off + encoding_sizes(enc))

\* json_document::parse<Flags>(data, num_bytes, enc): the encoding is
\* determined when it is unknown, and end is far away when the data is
\* NUL-terminated.
parse_with(m, num_bytes, wo, flags, s, d) ==
  IF num_bytes = 0 THEN PARSE_ERROR(s, "Expected '{' or '['", 0)
  ELSE IF d.fault THEN Fault([s EXCEPT !.outside = TRUE])
  ELSE IF d.what # "" THEN PARSE_ERROR([s EXCEPT !.outside = d.outside], d.what, 0)
  ELSE parse_internal(
         [Cfg(d.enc, wo, flags,
              IF num_bytes = npos THEN far_end(d.enc) ELSE num_bytes)
            EXCEPT !.lim = IF num_bytes = npos
                             THEN terminator(d.enc, m, 0) ELSE num_bytes],
         [s EXCEPT !.outside = d.outside])

parse_data(m, num_bytes, enc, wo, flags, heap) ==
  parse_with(m, num_bytes, wo, flags, PState(m, heap),
             IF enc = "unknown" /\ num_bytes # 0
               THEN determine_encoding(m, num_bytes)
               ELSE [enc |-> enc, what |-> "", outside |-> FALSE,
                     fault |-> FALSE])

\* The texts scanned: documents, documents followed by whitespace and by
\* comments that are closed or run to the end, a string that ends behind a
\* backslash, and inputs of one code unit.
ScanTexts ==
  {<<91, 49, 93>>,
     \* [1]
   <<123, 34, 97, 34, 58, 34, 98, 34, 125>>,
     \* {"a":"b"}
   <<91, 34, 97, 92, 110, 34, 93>>,
     \* ["a\n"]
   <<91, 49, 93, 32>>,
     \* [1] and a space
   <<91, 49, 93, 32, 35, 99>>,
     \* [1] #c
   <<91, 49, 93, 47, 47, 99>>,
     \* [1]//c
   <<91, 49, 93, 47, 42, 99>>,
     \* [1]/*c
   <<91, 49, 93, 47, 42, 99, 42, 47>>,
     \* [1]/*c*/
   <<91, 34, 97, 92>>,
     \* ["a and a backslash
   <<91>>,
     \* [
   <<49>>,
     \* 1
   <<32>>
     \* a space
  }

\* What the caller has behind the input, in code units of the input: the
\* terminator alone, the terminator before a line of something else, and the
\* rest of a string.
ScanTails == {<<0, 0>>, <<0, 99, 10, 0>>, <<34, 93, 0>>}

ScanFlags == {parse_default, {parse_comments}, parse_non_destructive}

ScanCall(in, m, n) ==
  Return(in, m, n, parse_data(m, n, in.enc, pcall.wo, in.flags, in.heap))

\* One call of parse on a fresh document: parse<Flags>(data, num_bytes, enc)
\* on the first num_bytes of a buffer, parse<Flags>(data, std::size_t(-1),
\* enc) on NUL-terminated data, or parse<Flags>(data, num_bytes) with the
\* encoding left to the parser.
ScanModes == {"bounded", "terminated", "detect"}

ParseScan ==
  /\ pcall.n = 0
  /\ \E T \in ScanTexts, enc \in Encodings, fl \in ScanFlags,
        tail \in ScanTails, mode \in ScanModes :
       /\ mode = "terminated" => tail[1] = 0
       /\ ScanCall(Input(T, IF mode = "detect" THEN "unknown" ELSE enc,
                         fl, tail, NoLimit),
                   Encode(enc, T \o tail),
                   IF mode = "terminated" THEN npos ELSE Len(Encode(enc, T)))

ScanNext == ParseScan

ScanSpec == ParseInit /\ [][ScanNext]_<<vars, pvars, mvars, prn>>

\* C29: a call of parse reads no code unit outside its input: none at or
\* behind num_bytes when the length is given, encoding detection included,
\* and none behind the first code unit zero when the data is NUL-terminated.
C29_ReadsInsideInput == pcall.n >= 1 => ~pcall.outside
====
